---- MODULE Spec2Model ----
(***************************************************************************)
(* A model of libimage's pull policy engine (pull.go: Runtime.Pull,        *)
(* copyFromRegistry, copySingleImageFromRegistry) and of its multi-name    *)
(* export (save.go: Runtime.Save, saveArchive, saveDockerArchive,          *)
(* saveOCIArchive).                                                        *)
(*                                                                         *)
(* The code is sequential.  One call is modelled as a walk of a program    *)
(* counter over the call's suspension points: every action is the code     *)
(* between two calls into an external collaborator (local image store,     *)
(* short-name resolver, copier, archive writer), and the collaborator's    *)
(* answer is drawn with \E when the call is made.  Every external call is  *)
(* appended to the history variable calls.                                 *)
(*                                                                         *)
(* Spec is one call of Runtime.Pull, SpecSave one call of Runtime.Save.    *)
(***************************************************************************)
EXTENDS Integers, Sequences, FiniteSets, TLC

\* ------------------------------------------------------------------ bounds

\* The most pull candidates the short-name resolver returns.
MaxCandidates == 2
\* The most tags a repository lists in an all-tags pull.
MaxTags == 2
\* The most names a docker archive gives the image that is pulled from it.
MaxArchiveNames == 2
\* The images of the local store that the names of one call can resolve to.
MaxImages == 2

\* ------------------------------------------------------------- vocabulary

PolicyAlways == "always"
PolicyMissing == "missing"
PolicyNever == "never"
PolicyNewer == "newer"
PolicyUnsupported == "unsupported"

\* config.PullPolicy values a caller can pass.
Policies == {PolicyAlways, PolicyMissing, PolicyNever, PolicyNewer, PolicyUnsupported}

\* runtime.GOARCH / runtime.GOOS of the build.
GOARCH == "amd64"
GOOS == "linux"

\* The shapes of name Pull tells apart:
\*   id        not parseable by any transport, "sha256:"-prefixed or 64 characters
\*   idprefix  a registry reference without transport, tag or digest that can also
\*             be the prefix of an image ID ("abc123")
\*   registry  any other registry reference, with or without the docker:// transport
\*   archive   docker-archive:...
\*   other     any other transport (dir:, oci:, oci-archive:, containers-storage:, ...)
\*   invalid   names a non-docker transport that rejects it, or is no reference at all
NameKinds == {"id", "idprefix", "registry", "archive", "other", "invalid"}

\* The platforms a caller asks for in the options: none, the architecture of
\* the build, another architecture, a variant.
Platforms ==
    { [Architecture |-> "", OS |-> "", Variant |-> ""],
      [Architecture |-> "amd64", OS |-> "", Variant |-> ""],
      [Architecture |-> "arm64", OS |-> "", Variant |-> ""],
      [Architecture |-> "", OS |-> "", Variant |-> "v8"] }

\* The platform choices a runtime's system context carries: none, or an OS.
SystemContexts ==
    { [ArchitectureChoice |-> "", OSChoice |-> "", VariantChoice |-> ""],
      [ArchitectureChoice |-> "", OSChoice |-> "linux", VariantChoice |-> ""] }

\* ----------------------------------------------------------------- errors

\* An error value: what failed, for which candidate (0: none), whether
\* errors.Is(err, storage.ErrImageUnknown) holds, and, for the aggregate of
\* FormatPullErrors, the errors it was built from.
Err(kind, cand, unknown) ==
    [kind |-> kind, cand |-> cand, unknown |-> unknown, errs |-> <<>>]

NoErr == Err("nil", 0, FALSE)

\* storage.ErrImageUnknown as LookupImage returns it.
ErrImageUnknown == Err("image not known", 0, TRUE)

\* fmt.Errorf("...: %w", err): a new message around err; errors.Is still finds
\* what err wraps.
Wrap(kind, err) ==
    [kind |-> kind, cand |-> err.cand, unknown |-> err.unknown, errs |-> err.errs]

IsImageUnknown(err) == err.unknown

\* ------------------------------------------------------------------ state

VARIABLES
    pc,             \* where the call stands
    name,           \* Pull: the shape of the name argument
    pullPolicy,     \* Pull: the pullPolicy argument
    options,        \* Pull: *PullOptions (Architecture, OS, Variant, AllTags, Writer)
    eventChannel,   \* r.eventChannel != nil
    cancelled,      \* ctx.Done() is closed
    doneAtPoll,     \* history: ctx.Done() was closed when the loop over the tags last polled it
    nTags,          \* copyFromRegistry: len(tags)
    tagIdx,         \* copyFromRegistry: the tag of the current iteration (0: not all-tags)
    attempted,      \* copyFromRegistry: the tags handed to copySingleImageFromRegistry
    pulledIDs,      \* copyFromRegistry: pulledIDs
    policy,         \* copySingleImageFromRegistry: pullPolicy, as escalated
    localImage,     \* copySingleImageFromRegistry: localImage (found = FALSE: nil)
    imageName,      \* copySingleImageFromRegistry: imageName, "input" or "resolved"
    nCandidates,    \* copySingleImageFromRegistry: len(resolved.PullCandidates)
    ci,             \* copySingleImageFromRegistry: the candidate of the current iteration
    pullErrors,     \* copySingleImageFromRegistry: pullErrors
    wroteDesc,      \* copySingleImageFromRegistry: wroteDesc
    single,         \* what the last copySingleImageFromRegistry returned
    calls,          \* history: the external calls of the current single-image pull or export
    store,          \* the images this call has written to the local store
    pulledImages,   \* Pull: pulledImages
    pIdx,           \* Pull: the index into pulledImages of the final loop
    localImages,    \* Pull: localImages
    matches,        \* Pull: what matchesPlatform answered, image by image
    output,         \* what was written to options.Writer or logged as a warning
    events,         \* the events written to the event channel
    result,         \* what the call returned
    save            \* Save: the whole state of an export (see SaveInit)

pullVars == <<name, pullPolicy, options, cancelled, doneAtPoll, nTags, tagIdx, attempted,
              pulledIDs, policy, localImage, imageName, nCandidates, ci, pullErrors,
              wroteDesc, single, store, pulledImages, pIdx, localImages, matches,
              output>>

vars == <<pc, eventChannel, calls, events, result, save, pullVars>>

\* A call into an external collaborator, for candidate cand (0: none), and
\* how it ended.
Call(op, cand, res) == [op |-> op, cand |-> cand, res |-> res]

\* ------------------------------------------------------ Pull: pure parts

\* pull.go 545: len(options.Architecture)+len(options.OS)+len(options.Variant) > 0
CustomPlatform(o) == o.Architecture # "" \/ o.OS # "" \/ o.Variant # ""

\* EscalatePolicy that spares only always: a custom platform overrides never
\* too, as the comment of pull.go 554 says.
EscalatePolicy_OverridesNever(p, customPlatform) ==
    IF customPlatform /\ p # PolicyAlways THEN PolicyNewer ELSE p

\* pull.go 546-557: a custom platform turns every policy but always and never
\* into newer.
EscalatePolicy(p, customPlatform) ==
    IF customPlatform /\ p # PolicyAlways /\ p # PolicyNever THEN PolicyNewer ELSE p

\* pull.go 149-157: empty platform fields are taken from the runtime's system
\* context.
DefaultPlatform(o, sys) ==
    [o EXCEPT !.Architecture = IF @ = "" THEN sys.ArchitectureChoice ELSE @,
              !.OS = IF @ = "" THEN sys.OSChoice ELSE @,
              !.Variant = IF @ = "" THEN sys.VariantChoice ELSE @]

\* pull.go 517-523: the local lookup is constrained by architecture and OS
\* only where they differ from the platform of the build.
LookupImageOptions(o) ==
    [Architecture |-> IF o.Architecture # GOARCH THEN o.Architecture ELSE "",
     OS |-> IF o.OS # GOOS THEN o.OS ELSE "",
     Variant |-> o.Variant]

\* pullPolicy.Validate(): every policy but the unsupported default is valid.
ValidPolicy(p) == p \in {PolicyAlways, PolicyMissing, PolicyNever, PolicyNewer}

\* A name or ID that copySingleImageFromRegistry returns and Pull looks up:
\* the resolved name of the local image found for tag t (0: the input name), or
\* the ID of the image that candidate c of tag t was pulled to.
ResolvedName(t) == [kind |-> "resolved", tag |-> t, cand |-> 0]

\* pull.go 461-491: the ID of the image in the store that carries the digest
\* of the manifest the copy returned.
ImageIDForPulledImage(t, c) == [kind |-> "pulled", tag |-> t, cand |-> c]

NoName == [kind |-> "none", tag |-> 0, cand |-> 0]

\* The names a copy from a transport other than a registry hands to Pull.
ArchiveName(i) == [kind |-> "archive", tag |-> 0, cand |-> i]

NoLocal == [found |-> FALSE, byID |-> FALSE, corrupted |-> FALSE]

\* What LookupImage can answer for a name of the given shape: nothing, or an
\* image, corrupted or not, that the name matches as a prefix of its ID (only
\* a name without transport, tag or digest can be one) or by name.
LookupAnswers(kind) ==
    {NoLocal} \cup
    { [found |-> TRUE, byID |-> b, corrupted |-> c] :
        b \in (IF kind = "idprefix" THEN BOOLEAN ELSE IF kind = "id" THEN {TRUE} ELSE {FALSE}),
        c \in BOOLEAN }

NoResult == [images |-> <<>>, err |-> NoErr]


\* The event Pull and Save write for the image with the given ID, or for a
\* failed pull (id 0).
Event(type, id, err) == [type |-> type, id |-> id, err |-> err]

\* An *Image as LookupImage returns it: the name it was looked up by and the
\* ID of the image in the store; two names can be names of one image.
Image(nm, id) == [name |-> nm, id |-> id]

\* ------------------------------------------------------------------- Init

SaveIdle == [op |-> "idle"]

\* *PullOptions: a platform, AllTags, and whether there is a Writer.
PullOptions(platforms, allTags, writers) ==
    { [Architecture |-> p.Architecture, OS |-> p.OS, Variant |-> p.Variant,
       AllTags |-> allTags, Writer |-> w] : p \in platforms, w \in writers }

\* Pull's locals before Pull has run.
PullLocalsInit ==
    /\ cancelled = FALSE
    /\ doneAtPoll = FALSE
    /\ nTags = 0
    /\ tagIdx = 0
    /\ attempted = <<>>
    /\ pulledIDs = <<>>
    /\ policy = pullPolicy
    /\ localImage = NoLocal
    /\ imageName = "input"
    /\ nCandidates = 0
    /\ ci = 0
    /\ pullErrors = <<>>
    /\ wroteDesc = FALSE
    /\ single = [name |-> NoName, err |-> NoErr]
    /\ calls = <<>>
    /\ store = {}
    /\ pulledImages = <<>>
    /\ pIdx = 0
    /\ localImages = <<>>
    /\ matches = <<>>
    /\ output = <<>>
    /\ events = <<>>
    /\ result = NoResult

\* The state when Runtime.Pull is entered with a name of one of the shapes
\* names and options opts, for every policy and every runtime (with or
\* without an event channel).
PullInit(names, opts) ==
    /\ pc = "Pull"
    /\ name \in names
    /\ pullPolicy \in Policies
    /\ options \in opts
    /\ eventChannel \in BOOLEAN
    /\ save = SaveIdle
    /\ PullLocalsInit

tagVars == <<nTags, tagIdx, attempted, pulledIDs>>
singleVars == <<policy, localImage, imageName, nCandidates, ci, pullErrors, wroteDesc>>
postVars == <<pulledImages, pIdx, localImages, matches>>
inputVars == <<name, pullPolicy, eventChannel, save>>

\* ------------------------------------------------------------ Runtime.Pull

\* Pull returns (images, err); the deferred function of pull.go 57-64 writes
\* a pull-error event when there is an event channel and err is not nil.
PullReturn(images, err) ==
    /\ pc' = "done"
    /\ result' = [images |-> images, err |-> err]
    /\ events' = IF eventChannel /\ err # NoErr
                 THEN Append(events, Event("pullError", 0, err))
                 ELSE events

\* RefusesID with the check of the policy lost.
RefusesID_Never(p) == FALSE

\* pull.go 102: an image referred to by ID is not pulled under the policy
\* always.
RefusesID(p) == p = PolicyAlways

\* pull.go 55-157: the defaults, the parse of the name and the dispatch on
\* what it is.
Pull_Begin ==
    /\ pc = "Pull"
    /\ \E cfgOK \in BOOLEAN, sys \in SystemContexts :
        IF ~cfgOK
        THEN \* 69-84: config.Default() or the retry delay
             /\ PullReturn(<<>>, Err("containers.conf", 0, FALSE))
             /\ UNCHANGED options
        ELSE IF name = "invalid"
        THEN \* 95-97, 115-126
             /\ PullReturn(<<>>, Err("parsing reference", 0, FALSE))
             /\ UNCHANGED options
        ELSE IF name = "id"
        THEN \* 101-110
             IF RefusesID(pullPolicy)
             THEN /\ PullReturn(<<>>, Err("pull policy is always but image has been referred to by ID", 0, FALSE))
                  /\ UNCHANGED options
             ELSE /\ pc' = "Pull_LookupID"
                  /\ UNCHANGED <<options, result, events>>
        ELSE IF options.AllTags /\ name \notin {"registry", "idprefix"}
        THEN \* 141-143
             /\ PullReturn(<<>>, Err("pulling all tags is not supported", 0, FALSE))
             /\ UNCHANGED options
        ELSE \* 149-174
             /\ options' = DefaultPlatform(options, sys)
             /\ pc' = CASE name \in {"registry", "idprefix"} -> "copyFromRegistry"
                        [] name = "archive" -> "copyFromDockerArchive"
                        [] OTHER -> "copyFromDefault"
             /\ UNCHANGED <<result, events>>
    /\ UNCHANGED <<inputVars, cancelled, doneAtPoll, tagVars, singleVars, single, calls, store,
                   postVars, output>>

\* pull.go 105-109: a name that is an ID is looked up in the local store and
\* returned as it is found.
Pull_LookupID ==
    /\ pc = "Pull_LookupID"
    /\ \E local \in LookupAnswers("id") :
        /\ calls' = Append(calls, Call("LookupImage", 0,
                                       IF local.found THEN "found" ELSE "unknown"))
        /\ localImage' = local
        /\ IF local.found
           THEN \E img \in 1..MaxImages :
                    PullReturn(<<Image(ResolvedName(0), img)>>, NoErr)
           ELSE PullReturn(<<>>, ErrImageUnknown)
    /\ UNCHANGED <<inputVars, options, cancelled, doneAtPoll, tagVars, policy, imageName,
                   nCandidates, ci, pullErrors, wroteDesc, single, store, postVars,
                   output>>


\* ------------------------------------------------- Runtime.copyFromRegistry

\* pull.go 416-435: the policy is validated; a pull of one image goes to
\* copySingleImageFromRegistry, an all-tags pull lists the repository's tags.
CopyFromRegistry ==
    /\ pc = "copyFromRegistry"
    /\ IF ~ValidPolicy(pullPolicy)
       THEN /\ PullReturn(<<>>, Err("unsupported pull policy", 0, FALSE))
            /\ UNCHANGED <<nTags, tagIdx, calls>>
       ELSE IF ~options.AllTags
       THEN /\ pc' = "single"
            /\ UNCHANGED <<nTags, tagIdx, calls, result, events>>
       ELSE \E tagsOK \in BOOLEAN, n \in 0..MaxTags :
            /\ calls' = Append(calls, Call("GetRepositoryTags", 0,
                                           IF tagsOK THEN "ok" ELSE "err"))
            /\ IF tagsOK
               THEN /\ nTags' = n
                    /\ tagIdx' = 1
                    /\ pc' = "tagLoop"
                    /\ UNCHANGED <<result, events>>
               ELSE /\ PullReturn(<<>>, Err("repository tags", 0, FALSE))
                    /\ UNCHANGED <<nTags, tagIdx>>
    /\ UNCHANGED <<inputVars, options, cancelled, doneAtPoll, attempted, pulledIDs, singleVars,
                   single, store, postVars, output>>

\* The locals of copySingleImageFromRegistry, and the history of its external
\* calls, when no call of it is under way.
FreshSingle ==
    /\ policy' = pullPolicy
    /\ localImage' = NoLocal
    /\ imageName' = "input"
    /\ nCandidates' = 0
    /\ ci' = 0
    /\ pullErrors' = <<>>
    /\ wroteDesc' = FALSE
    /\ single' = [name |-> NoName, err |-> NoErr]
    /\ calls' = <<>>

\* Polled without the case of ctx.Done().
Polled_Never(done) == FALSE

\* pull.go 439-444: the select on ctx.Done() at the head of each round.
Polled(done) == done

\* pull.go 437-443 and 456: the loop over the tags polls ctx.Done() before
\* each tag, or returns after the last tag.  The call of
\* copySingleImageFromRegistry for the tag before has returned and its locals
\* are gone.
TagLoop ==
    /\ pc = "tagLoop"
    /\ IF tagIdx > nTags
       THEN \* 456, then Pull 176-180
            /\ pc' = "Pull_Images"
            /\ pulledImages' = pulledIDs
            /\ pIdx' = 1
            /\ UNCHANGED <<doneAtPoll, result, events>>
       ELSE /\ doneAtPoll' = cancelled
            /\ IF Polled(cancelled)
               THEN \* 440-441
                    PullReturn(<<>>, Err("pulling cancelled", 0, FALSE))
               ELSE /\ pc' = "withTag"
                    /\ UNCHANGED <<result, events>>
            /\ UNCHANGED <<pulledImages, pIdx>>
    /\ FreshSingle
    /\ UNCHANGED <<inputVars, options, cancelled, nTags, tagIdx, attempted, pulledIDs,
                   store, localImages, matches, output>>

\* pull.go 444-449: the tag is put on the name and the tagged name is handed
\* to copySingleImageFromRegistry.
TagLoop_WithTag ==
    /\ pc = "withTag"
    /\ \E tagOK \in BOOLEAN :
        IF ~tagOK
        THEN \* 445-448
             /\ PullReturn(<<>>, Err("creating tagged reference", 0, FALSE))
             /\ UNCHANGED attempted
        ELSE \* 449
             /\ pc' = "single"
             /\ attempted' = Append(attempted, tagIdx)
             /\ UNCHANGED <<result, events>>
    /\ UNCHANGED <<inputVars, options, cancelled, doneAtPoll, nTags, tagIdx, pulledIDs,
                   singleVars, single, calls, store, postVars, output>>


\* The caller cancels ctx, at any moment before Pull has returned.  Only the
\* loop over the tags polls it (pull.go 439): a cancellation that arrives
\* during the pull of one tag is seen at the next poll, if there is one.
Cancel ==
    /\ pc # "done"
    /\ ~cancelled
    /\ cancelled' = TRUE
    /\ UNCHANGED <<pc, inputVars, options, doneAtPoll, tagVars, singleVars, single, calls, store,
                   postVars, output, events, result>>

\* -------------------------------------- Runtime.copySingleImageFromRegistry

\* copySingleImageFromRegistry returns (name, err) to copyFromRegistry (pull.go
\* 423-427 for one image, 449-453 in the loop over the tags), which hands an
\* error on to Pull, and Pull to its caller (176-178).
SingleReturn(nm, err) ==
    /\ single' = [name |-> nm, err |-> err]
    /\ IF err # NoErr
       THEN /\ PullReturn(<<>>, err)
            /\ UNCHANGED <<pulledImages, pIdx, pulledIDs, tagIdx>>
       ELSE IF tagIdx = 0
       THEN /\ pulledImages' = <<nm>>
            /\ pIdx' = 1
            /\ pc' = "Pull_Images"
            /\ UNCHANGED <<pulledIDs, tagIdx, result, events>>
       ELSE /\ pulledIDs' = Append(pulledIDs, nm)
            /\ tagIdx' = tagIdx + 1
            /\ pc' = "tagLoop"
            /\ UNCHANGED <<pulledImages, pIdx, result, events>>

\* copySingleImageFromRegistry goes on to its next external call.
SingleGoto(next) ==
    /\ pc' = next
    /\ UNCHANGED <<single, pulledImages, pIdx, pulledIDs, tagIdx, result, events>>

\* pull.go 538-543: a corrupted local image is dropped.
DropCorrupted(local) == IF local.found /\ local.corrupted THEN NoLocal ELSE local

\* PolicyDispatch with never going to the registry when there is no local image.
PolicyDispatch_NeverFetches(pol, local) ==
    IF pol = PolicyNever
    THEN (IF local.found THEN "local" ELSE "fetch")
    ELSE IF pol = PolicyMissing /\ local.found
    THEN "local"
    ELSE IF local.found /\ local.byID
    THEN (IF pol = PolicyAlways THEN "byID" ELSE "local")
    ELSE "fetch"

\* PolicyDispatch without the return of the local image under missing.
PolicyDispatch_MissingFetches(pol, local) ==
    IF pol = PolicyNever
    THEN (IF local.found THEN "local" ELSE "unknown")
    ELSE IF local.found /\ local.byID
    THEN (IF pol = PolicyAlways THEN "byID" ELSE "local")
    ELSE "fetch"

\* PolicyDispatch without the check for an image looked up by ID: under always
\* and newer such an image goes on to the registry.
PolicyDispatch_IDFetches(pol, local) ==
    IF pol = PolicyNever
    THEN (IF local.found THEN "local" ELSE "unknown")
    ELSE IF pol = PolicyMissing /\ local.found
    THEN "local"
    ELSE "fetch"

\* pull.go 559-580: what the policy makes of the local image:
\*   "local"    return the local image's resolved name
\*   "unknown"  fail with storage.ErrImageUnknown
\*   "byID"     fail: the policy is always and the image was looked up by ID
\*   "fetch"    go on to the registry
PolicyDispatch(pol, local) ==
    IF pol = PolicyNever
    THEN (IF local.found THEN "local" ELSE "unknown")
    ELSE IF pol = PolicyMissing /\ local.found
    THEN "local"
    ELSE IF local.found /\ local.byID
    THEN (IF pol = PolicyAlways THEN "byID" ELSE "local")
    ELSE "fetch"

\* pull.go 592-597: the name handed to the resolver.
NameToResolve(local, customPlatform) ==
    IF local.found /\ ~customPlatform THEN "resolved" ELSE "input"

\* pull.go 496-597: the lookup of a local image, the check that it is not
\* corrupted, the escalation of the policy and the dispatch on it.
Single_Lookup ==
    /\ pc = "single"
    /\ IF ~ValidPolicy(pullPolicy)
       THEN /\ SingleReturn(NoName, Err("unsupported pull policy", 0, FALSE))
            /\ calls' = <<>>
            /\ UNCHANGED <<policy, localImage, imageName>>
       ELSE \E found \in LookupAnswers(IF tagIdx = 0 THEN name ELSE "registry") :
            LET local == DropCorrupted(found)
                custom == CustomPlatform(options)
                pol == EscalatePolicy(pullPolicy, custom)
                what == PolicyDispatch(pol, local)
            IN  /\ calls' = <<Call("LookupImage", 0,
                                   IF found.found THEN "found" ELSE "unknown")>>
                             \o (IF found.found
                                 THEN <<Call("isCorrupted", 0,
                                        IF found.corrupted THEN "corrupted" ELSE "ok")>>
                                 ELSE <<>>)
                /\ localImage' = local
                /\ policy' = pol
                /\ CASE what = "local" ->
                          /\ SingleReturn(ResolvedName(tagIdx), NoErr)
                          /\ UNCHANGED imageName
                     [] what = "unknown" ->
                          /\ SingleReturn(NoName, Wrap("no local image", ErrImageUnknown))
                          /\ UNCHANGED imageName
                     [] what = "byID" ->
                          /\ SingleReturn(NoName, Err("pull policy is always but image has been referred to by ID", 0, FALSE))
                          /\ UNCHANGED imageName
                     [] OTHER ->
                          /\ imageName' = NameToResolve(local, custom)
                          /\ SingleGoto("resolve")
    /\ nCandidates' = 0
    /\ ci' = 0
    /\ pullErrors' = <<>>
    /\ wroteDesc' = FALSE
    /\ UNCHANGED <<inputVars, options, cancelled, doneAtPoll, nTags, attempted, store, localImages, matches,
                   output>>

\* ResolveFailed that returns the resolver's error whatever the policy.
ResolveFailed_AlwaysFails(pol, local, t) ==
    [name |-> NoName, err |-> Err("short-name resolution", 0, FALSE)]

\* pull.go 601-606: what copySingleImageFromRegistry returns for tag t when
\* shortnames.Resolve fails: the local image's resolved name under newer, the
\* resolver's error otherwise.
ResolveFailed(pol, local, t) ==
    IF local.found /\ pol = PolicyNewer
    THEN [name |-> ResolvedName(t), err |-> NoErr]
    ELSE [name |-> NoName, err |-> Err("short-name resolution", 0, FALSE)]

\* pull.go 599-639: the short-name resolution and the copier.
Single_Resolve ==
    /\ pc = "resolve"
    /\ \E resolveOK \in BOOLEAN, n \in 0..MaxCandidates, copierOK \in BOOLEAN :
        IF ~resolveOK
        THEN \* 601-606
             /\ calls' = Append(calls, Call("Resolve", 0, "err"))
             /\ LET r == ResolveFailed(policy, localImage, tagIdx)
                IN  SingleReturn(r.name, r.err)
             /\ UNCHANGED <<nCandidates, ci, pullErrors, wroteDesc>>
        ELSE IF ~copierOK
        THEN \* 635-638
             /\ calls' = calls \o <<Call("Resolve", 0, "ok"), Call("newCopier", 0, "err")>>
             /\ SingleReturn(NoName, Err("new copier", 0, FALSE))
             /\ UNCHANGED <<nCandidates, ci, pullErrors, wroteDesc>>
        ELSE /\ calls' = calls \o <<Call("Resolve", 0, "ok"), Call("newCopier", 0, "ok")>>
             /\ nCandidates' = n
             /\ ci' = 1
             /\ pullErrors' = <<>>
             /\ wroteDesc' = FALSE
             /\ SingleGoto("candidates")
    /\ UNCHANGED <<inputVars, options, cancelled, doneAtPoll, nTags, attempted, policy, localImage,
                   imageName, store, localImages, matches, output>>


\* What the collaborators answer in one round of the loop over the candidates:
\* registryTransport.NewReference, hasDifferentDigestWithSystemContext,
\* ParseStoreReference, the write of the resolver's description (none: it is
\* empty), the write of "Trying to pull", Copy, Record, imageIDForPulledImage.
\* An answer that is never asked for, because an earlier one ended the round,
\* is left at its first value.
CandidateAnswers ==
    { o \in [src : BOOLEAN, dig : {"same", "newer", "err"}, dest : BOOLEAN,
             desc : {"none", "ok", "err"}, trying : BOOLEAN, copy : BOOLEAN,
             rec : BOOLEAN, id : BOOLEAN] :
        /\ ~o.src => o.dig = "newer" /\ o.dest
        /\ ~o.dest => o.desc = "none"
        /\ o.desc = "err" => o.trying
        /\ ~o.trying => o.copy
        /\ ~o.copy => o.rec /\ o.id }

OkErr(b) == IF b THEN "ok" ELSE "err"

\* How one round of the loop ends: its external calls, the errors it appends to
\* pullErrors, the images it has stored, wroteDesc, and whether the loop goes on
\* ("continue") or the function returns (nm, err).
Round(cs, errs, stored, wrote, next, nm, err) ==
    [calls |-> cs, errs |-> errs, stored |-> stored, wrote |-> wrote, next |-> next,
     name |-> nm, err |-> err]

\* CandidateRound with the return after a successful copy lost: the loop goes on.
CandidateRound_GoesOn(pol, local, t, c, writer, wrote, o) ==
    LET compare == pol = PolicyNewer /\ local.found
        c1 == <<Call("NewReference", c, OkErr(o.src))>>
        c2 == c1 \o (IF compare THEN <<Call("hasDifferentDigest", c, o.dig)>> ELSE <<>>)
        c3 == c2 \o <<Call("ParseStoreReference", c, OkErr(o.dest))>>
        writesDesc == ~wrote /\ o.desc # "none" /\ writer
        c4 == c3 \o (IF writesDesc THEN <<Call("Write description", c, o.desc)>> ELSE <<>>)
        c5 == c4 \o (IF writer THEN <<Call("Write trying to pull", c, OkErr(o.trying))>>
                     ELSE <<>>)
        c6 == c5 \o <<Call("Copy", c, OkErr(o.copy))>>
        c7 == c6 \o <<Call("Record", c, OkErr(o.rec))>>
        c8 == c7 \o <<Call("imageIDForPulledImage", c, OkErr(o.id))>>
        img == ImageIDForPulledImage(t, c)
    IN  IF ~o.src
        THEN Round(c1, <<>>, {}, wrote, "return", NoName, Err("new reference", c, FALSE))
        ELSE IF compare /\ o.dig = "err"
        THEN Round(c2, <<Err("digest", c, FALSE)>>, {}, wrote, "continue", NoName, NoErr)
        ELSE IF compare /\ o.dig = "same"
        THEN Round(c2, <<>>, {}, wrote, "continue", NoName, NoErr)
        ELSE IF ~o.dest
        THEN Round(c3, <<>>, {}, wrote, "return", NoName, Err("store reference", c, FALSE))
        ELSE IF writesDesc /\ o.desc = "err"
        THEN Round(c4, <<>>, {}, TRUE, "return", NoName, Err("write", c, FALSE))
        ELSE IF writer /\ ~o.trying
        THEN Round(c5, <<>>, {}, TRUE, "return", NoName, Err("write", c, FALSE))
        ELSE IF ~o.copy
        THEN Round(c6, <<Err("copy", c, FALSE)>>, {}, TRUE, "continue", NoName, NoErr)
        ELSE IF ~o.id
        THEN Round(c8, <<>>, {img}, TRUE, "return", NoName, Err("image ID", c, FALSE))
        ELSE Round(c8, <<>>, {img}, TRUE, "continue", img, NoErr)


\* CandidateRound with a failure of Record returned to the caller.
CandidateRound_RecordFails(pol, local, t, c, writer, wrote, o) ==
    LET compare == pol = PolicyNewer /\ local.found
        c1 == <<Call("NewReference", c, OkErr(o.src))>>
        c2 == c1 \o (IF compare THEN <<Call("hasDifferentDigest", c, o.dig)>> ELSE <<>>)
        c3 == c2 \o <<Call("ParseStoreReference", c, OkErr(o.dest))>>
        writesDesc == ~wrote /\ o.desc # "none" /\ writer
        c4 == c3 \o (IF writesDesc THEN <<Call("Write description", c, o.desc)>> ELSE <<>>)
        c5 == c4 \o (IF writer THEN <<Call("Write trying to pull", c, OkErr(o.trying))>>
                     ELSE <<>>)
        c6 == c5 \o <<Call("Copy", c, OkErr(o.copy))>>
        c7 == c6 \o <<Call("Record", c, OkErr(o.rec))>>
        c8 == c7 \o <<Call("imageIDForPulledImage", c, OkErr(o.id))>>
        img == ImageIDForPulledImage(t, c)
    IN  IF ~o.src
        THEN Round(c1, <<>>, {}, wrote, "return", NoName, Err("new reference", c, FALSE))
        ELSE IF compare /\ o.dig = "err"
        THEN Round(c2, <<Err("digest", c, FALSE)>>, {}, wrote, "continue", NoName, NoErr)
        ELSE IF compare /\ o.dig = "same"
        THEN Round(c2, <<>>, {}, wrote, "continue", NoName, NoErr)
        ELSE IF ~o.dest
        THEN Round(c3, <<>>, {}, wrote, "return", NoName, Err("store reference", c, FALSE))
        ELSE IF writesDesc /\ o.desc = "err"
        THEN Round(c4, <<>>, {}, TRUE, "return", NoName, Err("write", c, FALSE))
        ELSE IF writer /\ ~o.trying
        THEN Round(c5, <<>>, {}, TRUE, "return", NoName, Err("write", c, FALSE))
        ELSE IF ~o.copy
        THEN Round(c6, <<Err("copy", c, FALSE)>>, {}, TRUE, "continue", NoName, NoErr)
        ELSE IF ~o.rec
        THEN Round(c7, <<>>, {img}, TRUE, "return", NoName, Err("record", c, FALSE))
        ELSE IF ~o.id
        THEN Round(c8, <<>>, {img}, TRUE, "return", NoName, Err("image ID", c, FALSE))
        ELSE Round(c8, <<>>, {img}, TRUE, "return", img, NoErr)


\* CandidateRound with the skip of a candidate whose digest is the local one lost.
CandidateRound_CopiesSame(pol, local, t, c, writer, wrote, o) ==
    LET compare == pol = PolicyNewer /\ local.found
        c1 == <<Call("NewReference", c, OkErr(o.src))>>
        c2 == c1 \o (IF compare THEN <<Call("hasDifferentDigest", c, o.dig)>> ELSE <<>>)
        c3 == c2 \o <<Call("ParseStoreReference", c, OkErr(o.dest))>>
        writesDesc == ~wrote /\ o.desc # "none" /\ writer
        c4 == c3 \o (IF writesDesc THEN <<Call("Write description", c, o.desc)>> ELSE <<>>)
        c5 == c4 \o (IF writer THEN <<Call("Write trying to pull", c, OkErr(o.trying))>>
                     ELSE <<>>)
        c6 == c5 \o <<Call("Copy", c, OkErr(o.copy))>>
        c7 == c6 \o <<Call("Record", c, OkErr(o.rec))>>
        c8 == c7 \o <<Call("imageIDForPulledImage", c, OkErr(o.id))>>
        img == ImageIDForPulledImage(t, c)
    IN  IF ~o.src
        THEN Round(c1, <<>>, {}, wrote, "return", NoName, Err("new reference", c, FALSE))
        ELSE IF compare /\ o.dig = "err"
        THEN Round(c2, <<Err("digest", c, FALSE)>>, {}, wrote, "continue", NoName, NoErr)
        ELSE IF ~o.dest
        THEN Round(c3, <<>>, {}, wrote, "return", NoName, Err("store reference", c, FALSE))
        ELSE IF writesDesc /\ o.desc = "err"
        THEN Round(c4, <<>>, {}, TRUE, "return", NoName, Err("write", c, FALSE))
        ELSE IF writer /\ ~o.trying
        THEN Round(c5, <<>>, {}, TRUE, "return", NoName, Err("write", c, FALSE))
        ELSE IF ~o.copy
        THEN Round(c6, <<Err("copy", c, FALSE)>>, {}, TRUE, "continue", NoName, NoErr)
        ELSE IF ~o.id
        THEN Round(c8, <<>>, {img}, TRUE, "return", NoName, Err("image ID", c, FALSE))
        ELSE Round(c8, <<>>, {img}, TRUE, "return", img, NoErr)


\* CandidateRound with a failed digest comparison returned to the caller.
CandidateRound_DigestFatal(pol, local, t, c, writer, wrote, o) ==
    LET compare == pol = PolicyNewer /\ local.found
        c1 == <<Call("NewReference", c, OkErr(o.src))>>
        c2 == c1 \o (IF compare THEN <<Call("hasDifferentDigest", c, o.dig)>> ELSE <<>>)
        c3 == c2 \o <<Call("ParseStoreReference", c, OkErr(o.dest))>>
        writesDesc == ~wrote /\ o.desc # "none" /\ writer
        c4 == c3 \o (IF writesDesc THEN <<Call("Write description", c, o.desc)>> ELSE <<>>)
        c5 == c4 \o (IF writer THEN <<Call("Write trying to pull", c, OkErr(o.trying))>>
                     ELSE <<>>)
        c6 == c5 \o <<Call("Copy", c, OkErr(o.copy))>>
        c7 == c6 \o <<Call("Record", c, OkErr(o.rec))>>
        c8 == c7 \o <<Call("imageIDForPulledImage", c, OkErr(o.id))>>
        img == ImageIDForPulledImage(t, c)
    IN  IF ~o.src
        THEN Round(c1, <<>>, {}, wrote, "return", NoName, Err("new reference", c, FALSE))
        ELSE IF compare /\ o.dig = "err"
        THEN Round(c2, <<>>, {}, wrote, "return", NoName, Err("digest", c, FALSE))
        ELSE IF compare /\ o.dig = "same"
        THEN Round(c2, <<>>, {}, wrote, "continue", NoName, NoErr)
        ELSE IF ~o.dest
        THEN Round(c3, <<>>, {}, wrote, "return", NoName, Err("store reference", c, FALSE))
        ELSE IF writesDesc /\ o.desc = "err"
        THEN Round(c4, <<>>, {}, TRUE, "return", NoName, Err("write", c, FALSE))
        ELSE IF writer /\ ~o.trying
        THEN Round(c5, <<>>, {}, TRUE, "return", NoName, Err("write", c, FALSE))
        ELSE IF ~o.copy
        THEN Round(c6, <<Err("copy", c, FALSE)>>, {}, TRUE, "continue", NoName, NoErr)
        ELSE IF ~o.id
        THEN Round(c8, <<>>, {img}, TRUE, "return", NoName, Err("image ID", c, FALSE))
        ELSE Round(c8, <<>>, {img}, TRUE, "return", img, NoErr)

\* pull.go 642-695: the body of the loop over resolved.PullCandidates for
\* candidate c of tag t, under the (escalated) policy pol with local image
\* local, with or without options.Writer, given the collaborators' answers o.
CandidateRound(pol, local, t, c, writer, wrote, o) ==
    LET compare == pol = PolicyNewer /\ local.found
        c1 == <<Call("NewReference", c, OkErr(o.src))>>
        c2 == c1 \o (IF compare THEN <<Call("hasDifferentDigest", c, o.dig)>> ELSE <<>>)
        c3 == c2 \o <<Call("ParseStoreReference", c, OkErr(o.dest))>>
        writesDesc == ~wrote /\ o.desc # "none" /\ writer
        c4 == c3 \o (IF writesDesc THEN <<Call("Write description", c, o.desc)>> ELSE <<>>)
        c5 == c4 \o (IF writer THEN <<Call("Write trying to pull", c, OkErr(o.trying))>>
                     ELSE <<>>)
        c6 == c5 \o <<Call("Copy", c, OkErr(o.copy))>>
        c7 == c6 \o <<Call("Record", c, OkErr(o.rec))>>
        c8 == c7 \o <<Call("imageIDForPulledImage", c, OkErr(o.id))>>
        img == ImageIDForPulledImage(t, c)
    IN  IF ~o.src
        THEN Round(c1, <<>>, {}, wrote, "return", NoName, Err("new reference", c, FALSE))
        ELSE IF compare /\ o.dig = "err"
        THEN Round(c2, <<Err("digest", c, FALSE)>>, {}, wrote, "continue", NoName, NoErr)
        ELSE IF compare /\ o.dig = "same"
        THEN Round(c2, <<>>, {}, wrote, "continue", NoName, NoErr)
        ELSE IF ~o.dest
        THEN Round(c3, <<>>, {}, wrote, "return", NoName, Err("store reference", c, FALSE))
        ELSE IF writesDesc /\ o.desc = "err"
        THEN Round(c4, <<>>, {}, TRUE, "return", NoName, Err("write", c, FALSE))
        ELSE IF writer /\ ~o.trying
        THEN Round(c5, <<>>, {}, TRUE, "return", NoName, Err("write", c, FALSE))
        ELSE IF ~o.copy
        THEN Round(c6, <<Err("copy", c, FALSE)>>, {}, TRUE, "continue", NoName, NoErr)
        ELSE IF ~o.id
        THEN Round(c8, <<>>, {img}, TRUE, "return", NoName, Err("image ID", c, FALSE))
        ELSE Round(c8, <<>>, {img}, TRUE, "return", img, NoErr)

\* The deferred c.Close() of pull.go 639.
CloseCopier == <<Call("Close", 0, "ok")>>

\* pull.go 642-695: one round of the loop over the candidates.
Single_Candidate ==
    /\ pc = "candidates"
    /\ ci <= nCandidates
    /\ \E o \in CandidateAnswers :
        LET r == CandidateRound(policy, localImage, tagIdx, ci, options.Writer,
                                wroteDesc, o)
        IN  /\ pullErrors' = pullErrors \o r.errs
            /\ store' = store \cup r.stored
            /\ wroteDesc' = r.wrote
            /\ IF r.next = "continue"
               THEN /\ calls' = calls \o r.calls
                    /\ ci' = ci + 1
                    /\ SingleGoto("candidates")
               ELSE /\ calls' = calls \o r.calls \o CloseCopier
                    /\ ci' = ci
                    /\ SingleReturn(r.name, r.err)
    /\ UNCHANGED <<inputVars, options, cancelled, doneAtPoll, nTags, attempted, policy, localImage,
                   imageName, nCandidates, localImages, matches, output>>

\* resolved.FormatPullErrors: one error that carries every candidate's error.
FormatPullErrors(errs) ==
    [kind |-> "pull errors", cand |-> 0, unknown |-> FALSE, errs |-> errs]

\* Exhausted with only the last candidate's error returned.
Exhausted_LastError(pol, local, t, errs) ==
    IF local.found /\ pol = PolicyNewer
    THEN [name |-> ResolvedName(t), err |-> NoErr]
    ELSE IF Len(errs) = 0
    THEN [name |-> NoName, err |-> Err("internal error: no image pulled", 0, FALSE)]
    ELSE [name |-> NoName, err |-> FormatPullErrors(<<errs[Len(errs)]>>)]

\* pull.go 697-705: what copySingleImageFromRegistry returns when no candidate
\* was pulled.
Exhausted(pol, local, t, errs) ==
    IF local.found /\ pol = PolicyNewer
    THEN [name |-> ResolvedName(t), err |-> NoErr]
    ELSE IF Len(errs) = 0
    THEN [name |-> NoName, err |-> Err("internal error: no image pulled", 0, FALSE)]
    ELSE [name |-> NoName, err |-> FormatPullErrors(errs)]

\* pull.go 697-705: the loop over the candidates has ended.
Single_Exhausted ==
    /\ pc = "candidates"
    /\ ci > nCandidates
    /\ LET r == Exhausted(policy, localImage, tagIdx, pullErrors)
       IN  SingleReturn(r.name, r.err)
    /\ calls' = calls \o CloseCopier
    /\ UNCHANGED <<inputVars, options, cancelled, doneAtPoll, nTags, attempted, singleVars, store,
                   localImages, matches, output>>


\* ----------------------------------------------- the other transports

\* pull.go 232-325: the copy from any transport but a registry and a docker
\* archive: the copier, the name for the storage destination, the storage
\* reference, the copy.  The name is returned together with the copy's error.
CopyFromDefault ==
    /\ pc = "copyFromDefault"
    /\ \E ends \in {"newCopier", "name", "ParseStoreReference", "Copy", "ok"} :
        /\ calls' = IF ends = "newCopier"
                    THEN <<Call("newCopier", 0, "err")>>
                    ELSE IF ends \in {"name", "ParseStoreReference"}
                    THEN <<Call("newCopier", 0, "ok")>> \o CloseCopier
                    ELSE <<Call("newCopier", 0, "ok"), Call("Copy", 1, OkErr(ends = "ok"))>>
                         \o CloseCopier
        /\ IF ends = "ok"
           THEN /\ pulledImages' = <<ArchiveName(1)>>
                /\ pIdx' = 1
                /\ store' = store \cup {ArchiveName(1)}
                /\ pc' = "Pull_Images"
                /\ UNCHANGED <<result, events>>
           ELSE /\ PullReturn(<<>>, Err(ends, 0, FALSE))
                /\ UNCHANGED <<pulledImages, pIdx, store>>
    /\ UNCHANGED <<inputVars, options, cancelled, doneAtPoll, tagVars, singleVars, single,
                   localImages, matches, output>>

\* pull.go 371-409, 331-368: the copy from a docker archive: the reader, the
\* copier, the names of the image in the archive (its ID when it has none), and
\* one copy of the image per name, up to the first that fails.
CopyFromDockerArchive ==
    /\ pc = "copyFromDockerArchive"
    /\ \E ends \in {"NewReader", "newCopier", "names", "Copy", "ok"},
          n \in 1..MaxArchiveNames, failed \in 1..MaxArchiveNames :
        LET copies == IF ends = "ok" THEN n ELSE IF ends = "Copy" THEN failed ELSE 0
        IN  /\ failed <= n
            /\ calls' = (IF ends = "NewReader" THEN <<>>
                         ELSE IF ends = "newCopier" THEN <<Call("newCopier", 0, "err")>>
                         ELSE <<Call("newCopier", 0, "ok")>>
                              \o [i \in 1..copies |->
                                    Call("Copy", i, OkErr(ends = "ok" \/ i < failed))]
                              \o CloseCopier)
            /\ store' = store \cup
                        {ArchiveName(i) : i \in 1..(IF ends = "ok" THEN n
                                                    ELSE IF ends = "Copy" THEN failed - 1
                                                    ELSE 0)}
            /\ IF ends = "ok"
               THEN /\ pulledImages' = [i \in 1..n |-> ArchiveName(i)]
                    /\ pIdx' = 1
                    /\ pc' = "Pull_Images"
                    /\ UNCHANGED <<result, events>>
               ELSE /\ PullReturn(<<>>, Err(ends, 0, FALSE))
                    /\ UNCHANGED <<pulledImages, pIdx>>
    /\ UNCHANGED <<inputVars, options, cancelled, doneAtPoll, tagVars, singleVars, single,
                   localImages, matches, output>>

\* ------------------------------------------------------ Pull: the images


\* A platform check that fails the pull on a mismatch too.
PlatformFatal_Mismatch(platform) == platform # "match"

\* pull.go 190-193: of what matchesPlatform can answer (an error, a mismatch,
\* a match), only the error ends the pull.
PlatformFatal(platform) == platform = "err"

\* pull.go 181-211: one round of the loop over pulledImages: the image is
\* looked up, its platform is compared with the requested one, a mismatch is
\* written to options.Writer or logged, and the pull event is written.  The
\* names of a docker archive are names of one image.
Pull_Image ==
    /\ pc = "Pull_Images"
    /\ pIdx <= Len(pulledImages)
    /\ \E found \in BOOLEAN, id \in 1..MaxImages,
          platform \in {"err", "mismatch", "match"} :
        LET nm == pulledImages[pIdx]
        IN  /\ nm.kind = "archive" => id = 1
            /\ IF ~found
               THEN \* 183-185
                    /\ PullReturn(<<>>, Wrap("locating pulled image", ErrImageUnknown))
                    /\ UNCHANGED <<pIdx, localImages, matches, output>>
               ELSE IF PlatformFatal(platform)
               THEN \* 190-193
                    /\ PullReturn(<<>>, Err("checking platform of image", 0, FALSE))
                    /\ matches' = Append(matches, platform)
                    /\ UNCHANGED <<pIdx, localImages, output>>
               ELSE /\ matches' = Append(matches, platform)
                    /\ output' = IF platform = "mismatch"
                                 THEN Append(output, IF options.Writer
                                                     THEN "Writer: WARNING"
                                                     ELSE "logrus.Warnf")
                                 ELSE output
                    /\ events' = IF eventChannel
                                 THEN Append(events, Event("pull", id, NoErr))
                                 ELSE events
                    /\ localImages' = Append(localImages, Image(nm, id))
                    /\ pIdx' = pIdx + 1
                    /\ UNCHANGED <<pc, result>>
    /\ UNCHANGED <<inputVars, options, cancelled, doneAtPoll, tagVars, singleVars, single, calls,
                   store, pulledImages>>

\* pull.go 213: Pull returns the images.
Pull_Return ==
    /\ pc = "Pull_Images"
    /\ pIdx > Len(pulledImages)
    /\ PullReturn(localImages, NoErr)
    /\ UNCHANGED <<inputVars, options, cancelled, doneAtPoll, tagVars, singleVars, single, calls,
                   store, postVars, output>>

\* One call of Pull for one image.
Init == PullInit(NameKinds, PullOptions(Platforms, FALSE, BOOLEAN))

Next ==
    \/ Pull_Begin
    \/ Pull_LookupID
    \/ CopyFromRegistry
    \/ Single_Lookup
    \/ Single_Resolve
    \/ Single_Candidate
    \/ Single_Exhausted
    \/ CopyFromDefault
    \/ CopyFromDockerArchive
    \/ Pull_Image
    \/ Pull_Return

Spec == Init /\ [][Next]_vars

\* One call of Pull with options.AllTags, without a Writer, for no platform or
\* an architecture.  (Every name that reaches the loop over the tags is a
\* registry reference, and the name of each round is tagged: none is the
\* prefix of an ID.)
InitAllTags ==
    PullInit(NameKinds \ {"idprefix"},
             PullOptions({p \in Platforms : p.Variant = "" /\ p.Architecture # GOARCH},
                         TRUE, {FALSE}))

NextAllTags ==
    \/ Pull_Begin
    \/ Pull_LookupID
    \/ CopyFromRegistry
    \/ TagLoop
    \/ TagLoop_WithTag
    \/ Cancel
    \/ Single_Lookup
    \/ Single_Resolve
    \/ Single_Candidate
    \/ Single_Exhausted
    \/ Pull_Image
    \/ Pull_Return

SpecAllTags == InitAllTags /\ [][NextAllTags]_vars


\* =========================================================== Runtime.Save

\* The most names one call of Save is given.
MaxNames == 2
\* The most additional tags one call of Save is given.
MaxAdditionalTags == 1

\* The names Save is called with.  In the local store "repo:v1" and its
\* fully qualified spelling name one tagged reference of image id1, "repo:v2"
\* is a second tag of id1, "id1" is its ID, "repo@sha256:d1" its digested
\* reference, "other:v1" is a tag of image id2, and "missing" names no image.
SaveNames ==
    {"repo:v1", "docker.io/library/repo:v1", "repo:v2", "id1", "repo@sha256:d1",
     "other:v1", "missing"}

SaveFormats == {"oci-dir", "docker-dir", "docker-archive", "oci-archive", "tar"}

\* The additional tags Save is called with: a tagged name, a name without a
\* tag, a digested name, and one that is no reference.
AdditionalTagNames == {"extra:t", "extra", "extra@sha256:d9", "EXTRA:"}

\* r.LookupImage(name, nil) on the store above: the image's ID and the name it
\* was found with.  An ID is found with the ID itself.
StoreLookup(n) ==
    CASE n \in {"repo:v1", "docker.io/library/repo:v1"} ->
            [found |-> TRUE, id |-> "id1", resolved |-> "docker.io/library/repo:v1"]
      [] n = "repo:v2" ->
            [found |-> TRUE, id |-> "id1", resolved |-> "docker.io/library/repo:v2"]
      [] n = "id1" ->
            [found |-> TRUE, id |-> "id1", resolved |-> "id1"]
      [] n = "repo@sha256:d1" ->
            [found |-> TRUE, id |-> "id1", resolved |-> "docker.io/library/repo@sha256:d1"]
      [] n = "other:v1" ->
            [found |-> TRUE, id |-> "id2", resolved |-> "docker.io/library/other:v1"]
      [] OTHER ->
            [found |-> FALSE, id |-> "", resolved |-> ""]

\* reference.ParseNamed(resolved name) and the assertion to NamedTagged: an ID
\* is no reference (err), a digested reference is a Named that is not
\* NamedTagged.
ParseNamed(resolved) ==
    CASE resolved \in {"docker.io/library/repo:v1", "docker.io/library/repo:v2",
                       "docker.io/library/other:v1"} ->
            [ok |-> TRUE, withTag |-> TRUE]
      [] resolved = "docker.io/library/repo@sha256:d1" ->
            [ok |-> TRUE, withTag |-> FALSE]
      [] OTHER ->
            [ok |-> FALSE, withTag |-> FALSE]

\* NormalizeName(tag) and the assertion to NamedTagged: a name without tag or
\* digest gets the tag latest, a digested name stays without a tag, and what
\* is no reference is an error.
NormalizeName(tag) ==
    CASE tag = "extra:t" -> [ok |-> TRUE, withTag |-> TRUE, named |-> "docker.io/library/extra:t"]
      [] tag = "extra" -> [ok |-> TRUE, withTag |-> TRUE, named |-> "docker.io/library/extra:latest"]
      [] tag = "extra@sha256:d9" ->
            [ok |-> TRUE, withTag |-> FALSE, named |-> "docker.io/library/extra@sha256:d9"]
      [] OTHER -> [ok |-> FALSE, withTag |-> FALSE, named |-> ""]

\* The sequences over S of length at most n.
SeqsUpTo(S, n) == UNION {[1..k -> S] : k \in 0..n}

\* An external call of an export: for which image, with which name (the
\* destination's name, or "") and which tags, and how it ended.
SaveCall(op, id, nm, tags, res) ==
    [op |-> op, id |-> id, name |-> nm, tags |-> tags, res |-> res]

\* errors.Wrap(err, msg) and finalErr's chaining: a new message with err as
\* its cause.
WrapCause(err, msg) ==
    [kind |-> msg, cand |-> 0, unknown |-> err.unknown, errs |-> <<err>>]

\* The locals of saveArchive and of the archive it writes:
\*   tags          additionalTags, normalized
\*   i             the index into names of the loop of save.go 156
\*   orderedIDs, localImages, visitedNames   as in save.go 153-155
\*   deferred      the deferred writeEvent calls, in the order they were deferred
\*   writer        the archive writer: "none", "open" or "closed"
\*   copiers       the copiers created, each for one image, open or closed
\*   j             the index into orderedIDs of the loops of save.go 226 and 274
\*   k             the index into the image's destNames of the loop of save.go
\*                 288, 0 before the image's copier is created
\*   archive       the copies made into the archive, in order
SaveInitial(names, format, tags) ==
    [op |-> "save", names |-> names, format |-> format, additionalTags |-> tags,
     tags |-> <<>>, i |-> 1, orderedIDs |-> <<>>, localImages |-> <<>>,
     visitedNames |-> {}, deferred |-> <<>>, writer |-> "none", copiers |-> <<>>,
     j |-> 1, k |-> 0, archive |-> <<>>]

\* The state when Runtime.Save is entered, with any names, format and
\* additional tags.
SaveInit ==
    /\ pc = "Save"
    /\ \E names \in SeqsUpTo(SaveNames, MaxNames), format \in SaveFormats,
          tags \in SeqsUpTo(AdditionalTagNames, MaxAdditionalTags) :
        save = SaveInitial(names, format, tags)
    /\ eventChannel \in BOOLEAN
    /\ name = "id"
    /\ pullPolicy = PolicyNever
    /\ options = [Architecture |-> "", OS |-> "", Variant |-> "", AllTags |-> FALSE,
                  Writer |-> FALSE]
    /\ PullLocalsInit

\* Save, saveSingleImage or saveArchive returns err.
SaveReturn(err) ==
    /\ pc' = "done"
    /\ result' = [images |-> <<>>, err |-> err]

\* Sanity checks that let additional tags through with several names.
SaveSanity_AllowsTags(names, format, additionalTags) ==
    IF Len(names) = 0
    THEN Err("no image specified for saving images", 0, FALSE)
    ELSE IF Len(names) = 1
    THEN NoErr
    ELSE IF format # "docker-archive" /\ format # "oci-archive"
    THEN Err("unsupported format for saving multiple images", 0, FALSE)
    ELSE NoErr

\* Sanity checks that take several names for docker-archive alone, as the
\* comment of save.go 30-35 has it.
SaveSanity_OnlyDocker(names, format, additionalTags) ==
    IF Len(names) = 0
    THEN Err("no image specified for saving images", 0, FALSE)
    ELSE IF Len(names) = 1
    THEN NoErr
    ELSE IF format # "docker-archive"
    THEN Err("unsupported format for saving multiple images", 0, FALSE)
    ELSE IF Len(additionalTags) > 0
    THEN Err("cannot save multiple images with multiple tags", 0, FALSE)
    ELSE NoErr

\* save.go 44-56: the sanity checks; the error they end with, or NoErr.
SaveSanity(names, format, additionalTags) ==
    IF Len(names) = 0
    THEN Err("no image specified for saving images", 0, FALSE)
    ELSE IF Len(names) = 1
    THEN NoErr
    ELSE IF format # "docker-archive" /\ format # "oci-archive"
    THEN Err("unsupported format for saving multiple images", 0, FALSE)
    ELSE IF Len(additionalTags) > 0
    THEN Err("cannot save multiple images with multiple tags", 0, FALSE)
    ELSE NoErr

\* save.go 36-74: the sanity checks and the dispatch on the format.
Save_Begin ==
    /\ pc = "Save"
    /\ LET err == SaveSanity(save.names, save.format, save.additionalTags)
       IN  IF err # NoErr
           THEN SaveReturn(err)
           ELSE IF save.format \in {"oci-dir", "docker-dir"}
           THEN IF Len(save.names) > 1
                THEN SaveReturn(Err("does not support saving multiple images", 0, FALSE))
                ELSE pc' = "saveSingleImage" /\ UNCHANGED result
           ELSE IF save.format \in {"docker-archive", "oci-archive"}
           THEN pc' = "saveArchive" /\ UNCHANGED result
           ELSE SaveReturn(Err("unsupported format for saving images", 0, FALSE))
    /\ UNCHANGED <<save, eventChannel, calls, events, pullVars>>

\* save.go 101-113: the name the destination of a single-image export carries:
\* ociTransport.NewReference(path, tag) takes the tag, dirTransport.NewReference(path)
\* takes no name.
DestinationName(format, tag) == IF format = "oci-dir" THEN tag ELSE ""

\* save.go 78-127: one image is saved to a directory.  The save event is
\* deferred once the image is found, and written when the function returns.
SaveSingleImage ==
    /\ pc = "saveSingleImage"
    /\ \E ends \in {"StorageReference", "NewReference", "newCopier", "copy", "ok"} :
        LET r == StoreLookup(save.names[1])
            tag == IF r.resolved = r.id THEN "" ELSE r.resolved
            lookup == SaveCall("LookupImage", r.id, save.names[1], <<>>, OkErr(r.found))
            sref == SaveCall("StorageReference", r.id, "", <<>>,
                             OkErr(ends # "StorageReference"))
            dest == DestinationName(save.format, tag)
            ref == SaveCall("NewReference", r.id, dest, <<>>, OkErr(ends # "NewReference"))
            copier == SaveCall("newCopier", r.id, "", <<>>, OkErr(ends # "newCopier"))
            copy == SaveCall("copy", r.id, dest, <<>>, OkErr(ends = "ok"))
            close == SaveCall("copier.close", r.id, "", <<>>, "ok")
        IN  IF ~r.found
            THEN /\ calls' = <<lookup>>
                 /\ SaveReturn(ErrImageUnknown)
                 /\ UNCHANGED <<events, save>>
            ELSE /\ calls' = CASE ends = "StorageReference" -> <<lookup, sref>>
                               [] ends = "NewReference" -> <<lookup, sref, ref>>
                               [] ends = "newCopier" -> <<lookup, sref, ref, copier>>
                               [] OTHER -> <<lookup, sref, ref, copier, copy, close>>
                 /\ SaveReturn(IF ends = "ok" THEN NoErr ELSE Err(ends, 0, FALSE))
                 /\ events' = IF eventChannel
                              THEN Append(events, Event("save", r.id, NoErr))
                              ELSE events
                 /\ save' = [save EXCEPT !.archive =
                                IF ends = "ok"
                                THEN <<[id |-> r.id, name |-> dest, tags |-> <<>>]>>
                                ELSE <<>>]
    /\ UNCHANGED <<eventChannel, pullVars>>

\* The deferred writeEvent calls of saveArchive run when it returns, the last
\* deferred first.
RECURSIVE Reversed(_)
Reversed(q) == IF q = <<>> THEN <<>> ELSE Append(Reversed(Tail(q)), Head(q))

\* saveArchive returns err (or panics with it): its deferred events are written.
ArchiveReturn(s, cs, err) ==
    /\ SaveReturn(err)
    /\ save' = s
    /\ calls' = cs
    /\ events' = events \o Reversed(s.deferred)

\* save.go 141-151: the additional tags are normalized.  A tag NormalizeName
\* refuses is skipped, one that normalizes to a name without tag ends the
\* export.
RECURSIVE NormalizedTags(_)
NormalizedTags(tags) ==
    IF tags = <<>>
    THEN [err |-> NoErr, tags |-> <<>>]
    ELSE LET n == NormalizeName(Head(tags))
             rest == NormalizedTags(Tail(tags))
         IN  IF ~n.ok
             THEN rest
             ELSE IF ~n.withTag
             THEN [err |-> Err("invalid additional tag: normalized to untagged", 0, FALSE),
                   tags |-> <<>>]
             ELSE IF rest.err # NoErr
             THEN rest
             ELSE [err |-> NoErr, tags |-> <<n.named>> \o rest.tags]

SaveArchive_Tags ==
    /\ pc = "saveArchive"
    /\ LET n == NormalizedTags(save.additionalTags)
       IN  IF n.err # NoErr
           THEN ArchiveReturn(save, calls, n.err)
           ELSE /\ pc' = "scan"
                /\ save' = [save EXCEPT !.tags = n.tags]
                /\ UNCHANGED <<calls, events, result>>
    /\ UNCHANGED <<eventChannel, pullVars>>

\* A scan that starts a new entry for every name, whether or not the image
\* has one.
LocalImageOf_AlwaysNew(localImgs, id, additionalTags) ==
    [tags |-> additionalTags, destNames |-> <<>>]

\* The entry of image id in localImages, or a new one carrying the additional
\* tags (save.go 169-174).
LocalImageOf(localImgs, id, additionalTags) ==
    IF id \in DOMAIN localImgs
    THEN localImgs[id]
    ELSE [tags |-> additionalTags, destNames |-> <<>>]

\* A scan that records one destination name per image only.
WithName_OneDestName(local, resolved) ==
    LET p == ParseNamed(resolved)
    IN  [tags |-> IF p.ok /\ p.withTag THEN Append(local.tags, resolved) ELSE local.tags,
         destNames |-> IF p.ok /\ local.destNames = <<>>
                       THEN <<resolved>> ELSE local.destNames]

\* A scan that takes every resolved name for a tag, parsed or not.
WithName_AlwaysTags(local, resolved) ==
    [tags |-> Append(local.tags, resolved),
     destNames |-> Append(local.destNames, resolved)]

\* save.go 175-184: the resolved name is added to the entry's tags if it is
\* tagged and to its destination names if it is a reference.
WithName(local, resolved) ==
    LET p == ParseNamed(resolved)
    IN  [tags |-> IF p.ok /\ p.withTag THEN Append(local.tags, resolved) ELSE local.tags,
         destNames |-> IF p.ok THEN Append(local.destNames, resolved) ELSE local.destNames]

\* save.go 183 calls String() on tagged, which is nil when the resolved name
\* is a reference without a tag: the call panics.
PanicsOnName(resolved) ==
    LET p == ParseNamed(resolved) IN p.ok /\ ~p.withTag

\* A scan without the filter on the resolved names.
SkipsName_Never(visited, resolved) == FALSE

\* Whether a name LookupImage resolved to a name seen before is skipped
\* (save.go 164-166).
SkipsName(visited, resolved) == resolved \in visited

\* A scan that appends the image's ID to orderedIDs for every name kept.
OrderedIDsWith_Always(orderedIDs, localImgs, id) == Append(orderedIDs, id)

\* save.go 169-174: the ID of an image that has no entry in localImages yet is
\* appended to orderedIDs.
OrderedIDsWith(orderedIDs, localImgs, id) ==
    IF id \notin DOMAIN localImgs THEN Append(orderedIDs, id) ELSE orderedIDs

\* save.go 227-230 and 275-278: the error of an ID of orderedIDs that has no
\* entry in localImages.
ErrNotInLocalMap == Err("internal error: ID not found in local map", 0, FALSE)

\* save.go 156-189: one round of the loop over names.
SaveArchive_Scan ==
    /\ pc = "scan"
    /\ save.i <= Len(save.names)
    /\ LET n == save.names[save.i]
           r == StoreLookup(n)
           cs == Append(calls, SaveCall("LookupImage", r.id, n, <<>>, OkErr(r.found)))
           local == LocalImageOf(save.localImages, r.id, save.tags)
           ids == OrderedIDsWith(save.orderedIDs, save.localImages, r.id)
       IN  IF ~r.found
           THEN ArchiveReturn(save, cs, ErrImageUnknown)
           ELSE IF SkipsName(save.visitedNames, r.resolved)
           THEN /\ save' = [save EXCEPT !.i = @ + 1]
                /\ calls' = cs
                /\ UNCHANGED <<pc, events, result>>
           ELSE IF PanicsOnName(r.resolved)
           THEN ArchiveReturn([save EXCEPT !.visitedNames = @ \cup {r.resolved},
                                           !.orderedIDs = ids],
                              cs, Err("panic: nil pointer dereference", 0, FALSE))
           ELSE /\ save' = [save EXCEPT
                               !.i = @ + 1,
                               !.visitedNames = @ \cup {r.resolved},
                               !.orderedIDs = ids,
                               !.localImages = (r.id :> WithName(local, r.resolved)) @@ @,
                               !.deferred = IF eventChannel
                                            THEN Append(@, Event("save", r.id, NoErr))
                                            ELSE @]
                /\ calls' = cs
                /\ UNCHANGED <<pc, events, result>>
    /\ UNCHANGED <<eventChannel, pullVars>>

\* save.go 191-204 and 210-213, 259-262: after the scan the archive writer of
\* the format is opened.
SaveArchive_Open ==
    /\ pc = "scan"
    /\ save.i > Len(save.names)
    /\ \E ok \in BOOLEAN :
        LET cs == Append(calls, SaveCall("NewWriter", "", save.format, <<>>, OkErr(ok)))
        IN  IF ok
            THEN /\ pc' = IF save.format = "docker-archive"
                          THEN "saveDockerArchive" ELSE "saveOCIArchive"
                 /\ save' = [save EXCEPT !.writer = "open"]
                 /\ calls' = cs
                 /\ UNCHANGED <<events, result>>
            ELSE ArchiveReturn(save, cs, Err("NewWriter", 0, FALSE))
    /\ UNCHANGED <<eventChannel, pullVars>>

\* An export that closes only the copier it created last.
CloseCopiers_OnlyLast(copiers) ==
    IF copiers = <<>>
    THEN <<>>
    ELSE <<SaveCall("copier.close", copiers[Len(copiers)], "", <<>>, "ok")>>

\* The deferred c.close() calls of an export run when it returns, the last
\* created copier first.
RECURSIVE CloseCopiers(_)
CloseCopiers(copiers) ==
    IF copiers = <<>>
    THEN <<>>
    ELSE Append(CloseCopiers(Tail(copiers)),
                SaveCall("copier.close", Head(copiers), "", <<>>, "ok"))

\* A deferred close whose error takes the place of the error of the export.
DockerCloseErr_Replaces(finalErr, closeOk) ==
    IF closeOk THEN finalErr ELSE Err("writer.Close", 0, FALSE)

\* save.go 214-224: the error saveDockerArchive returns once its deferred
\* writer.Close() has run.
DockerCloseErr(finalErr, closeOk) ==
    IF closeOk
    THEN finalErr
    ELSE IF finalErr = NoErr
    THEN Err("writer.Close", 0, FALSE)
    ELSE WrapCause(finalErr, "writer.Close")

\* save.go 263-272: the error saveOCIArchive returns once its deferred
\* writer.Close() has run.  Without a return after finalErr = err, a close
\* error is wrapped with its own message.
OCICloseErr(finalErr, closeOk) ==
    IF closeOk
    THEN finalErr
    ELSE IF finalErr = NoErr
    THEN WrapCause(Err("writer.Close", 0, FALSE), "writer.Close")
    ELSE WrapCause(finalErr, "writer.Close")

\* An export that closes its writer only when it succeeded.
WriterReturn_LeaksOnError(s, cs, finalErr) ==
    IF finalErr # NoErr
    THEN ArchiveReturn(s, cs \o CloseCopiers(s.copiers), finalErr)
    ELSE \E closeOk \in BOOLEAN :
            ArchiveReturn([s EXCEPT !.writer = "closed", !.copiers = <<>>],
                          cs \o CloseCopiers(s.copiers)
                             \o <<SaveCall("writer.Close", "", s.format, <<>>, OkErr(closeOk))>>,
                          IF closeOk THEN NoErr ELSE Err("writer.Close", 0, FALSE))

\* saveDockerArchive or saveOCIArchive returns finalErr: the copiers are
\* closed, then the writer, and saveArchive returns what it got.
WriterReturn(s, cs, finalErr) ==
    \E closeOk \in BOOLEAN :
        ArchiveReturn([s EXCEPT !.writer = "closed", !.copiers = <<>>],
                      cs \o CloseCopiers(s.copiers)
                         \o <<SaveCall("writer.Close", "", s.format, <<>>, OkErr(closeOk))>>,
                      IF s.format = "docker-archive"
                      THEN DockerCloseErr(finalErr, closeOk)
                      ELSE OCICloseErr(finalErr, closeOk))

\* The tags saveDockerArchive hands to the copy of an entry (save.go 233).
DockerArchiveTags(local) == local.tags

\* save.go 226-254: one round of the loop over orderedIDs.
SaveDockerArchive_Image ==
    /\ pc = "saveDockerArchive"
    /\ save.j <= Len(save.orderedIDs)
    /\ \E ends \in {"newCopier", "NewReference", "StorageReference", "copy", "ok"} :
        LET id == save.orderedIDs[save.j]
            tags == DockerArchiveTags(save.localImages[id])
            copier == SaveCall("newCopier", id, "", tags, OkErr(ends # "newCopier"))
            ref == SaveCall("NewReference", id, "", <<>>, OkErr(ends # "NewReference"))
            sref == SaveCall("StorageReference", id, "", <<>>,
                             OkErr(ends # "StorageReference"))
            copy == SaveCall("copy", id, "", tags, OkErr(ends = "ok"))
            cs == calls \o (CASE ends = "newCopier" -> <<copier>>
                              [] ends = "NewReference" -> <<copier, ref>>
                              [] ends = "StorageReference" -> <<copier, ref, sref>>
                              [] OTHER -> <<copier, ref, sref, copy>>)
            s == [save EXCEPT !.copiers = IF ends = "newCopier" THEN @ ELSE Append(@, id)]
        IN  IF id \notin DOMAIN save.localImages
            THEN WriterReturn(save, calls, ErrNotInLocalMap)
            ELSE IF ends = "ok"
            THEN /\ save' = [s EXCEPT !.j = @ + 1,
                                      !.archive = Append(@, [id |-> id, name |-> "",
                                                             tags |-> tags])]
                 /\ calls' = cs
                 /\ UNCHANGED <<pc, events, result>>
            ELSE WriterReturn(s, cs, Err(ends, save.j, FALSE))
    /\ UNCHANGED <<eventChannel, pullVars>>

\* save.go 255 and 304: every image is copied and the export returns.
SaveArchive_Return ==
    /\ pc \in {"saveDockerArchive", "saveOCIArchive"}
    /\ save.j > Len(save.orderedIDs)
    /\ WriterReturn(save, calls, NoErr)
    /\ UNCHANGED <<eventChannel, pullVars>>

\* save.go 274-287: a round of the loop over orderedIDs begins with the
\* image's copier.
SaveOCIArchive_Image ==
    /\ pc = "saveOCIArchive"
    /\ save.j <= Len(save.orderedIDs)
    /\ save.k = 0
    /\ \E ok \in BOOLEAN :
        LET id == save.orderedIDs[save.j]
            cs == Append(calls, SaveCall("newCopier", id, "", <<>>, OkErr(ok)))
        IN  IF id \notin DOMAIN save.localImages
            THEN WriterReturn(save, calls, ErrNotInLocalMap)
            ELSE IF ~ok
            THEN WriterReturn(save, cs, Err("newCopier", save.j, FALSE))
            ELSE /\ save' = IF save.localImages[id].destNames = <<>>
                            THEN [save EXCEPT !.copiers = Append(@, id), !.j = @ + 1]
                            ELSE [save EXCEPT !.copiers = Append(@, id), !.k = 1]
                 /\ calls' = cs
                 /\ UNCHANGED <<pc, events, result>>
    /\ UNCHANGED <<eventChannel, pullVars>>

\* save.go 288-302: one round of the loop over the image's destNames.
SaveOCIArchive_Name ==
    /\ pc = "saveOCIArchive"
    /\ save.j <= Len(save.orderedIDs)
    /\ save.k > 0
    /\ \E ends \in {"NewReference", "StorageReference", "copy", "ok"} :
        LET id == save.orderedIDs[save.j]
            destNames == save.localImages[id].destNames
            destName == destNames[save.k]
            ref == SaveCall("NewReference", id, destName, <<>>, OkErr(ends # "NewReference"))
            sref == SaveCall("StorageReference", id, "", <<>>,
                             OkErr(ends # "StorageReference"))
            copy == SaveCall("copy", id, destName, <<>>, OkErr(ends = "ok"))
            cs == calls \o (CASE ends = "NewReference" -> <<ref>>
                              [] ends = "StorageReference" -> <<ref, sref>>
                              [] OTHER -> <<ref, sref, copy>>)
        IN  IF ends = "ok"
            THEN /\ save' = [save EXCEPT
                                !.k = IF save.k = Len(destNames) THEN 0 ELSE @ + 1,
                                !.j = IF save.k = Len(destNames) THEN @ + 1 ELSE @,
                                !.archive = Append(@, [id |-> id, name |-> destName,
                                                       tags |-> <<>>])]
                 /\ calls' = cs
                 /\ UNCHANGED <<pc, events, result>>
            ELSE WriterReturn(save, cs, Err(ends, save.j, FALSE))
    /\ UNCHANGED <<eventChannel, pullVars>>

InitSave == SaveInit

NextSave ==
    \/ Save_Begin
    \/ SaveSingleImage
    \/ SaveArchive_Tags
    \/ SaveArchive_Scan
    \/ SaveArchive_Open
    \/ SaveDockerArchive_Image
    \/ SaveOCIArchive_Image
    \/ SaveOCIArchive_Name
    \/ SaveArchive_Return

SpecSave == InitSave /\ [][NextSave]_vars

\* ================================================================ claims

\* copySingleImageFromRegistry has returned.
SingleDone == single # [name |-> NoName, err |-> NoErr]

\* The positions in calls of the calls of the given operations.
CallsOf(ops) == {i \in DOMAIN calls : calls[i].op \in ops}

\* The calls that reach for a registry or write to the store: the resolution
\* of the candidates, the digest comparison, the copy, the alias record.
TransportOps ==
    {"Resolve", "newCopier", "hasDifferentDigest", "Copy", "Record",
     "GetRepositoryTags", "imageIDForPulledImage"}

\* ---- C1
\* C1: a pull of one image under the policy never that finds no local image
\* (none, or only a corrupted one) fails with an error that is
\* storage.ErrImageUnknown, and neither resolves candidates nor compares a
\* digest nor copies, whatever the platform asked for.
C1_NeverWithoutLocalIsUnknown ==
    (SingleDone /\ pullPolicy = PolicyNever /\ ~localImage.found)
    => /\ pc = "done"
       /\ single.name = NoName
       /\ IsImageUnknown(single.err)
       /\ result.err = single.err
       /\ result.images = <<>>
       /\ CallsOf(TransportOps) = {}
       /\ store = {}

\* C1's case: never, a custom platform, no local image, and the pull has
\* failed with ErrImageUnknown after the lookup alone.
C1_Witness ==
    /\ pc = "done"
    /\ pullPolicy = PolicyNever
    /\ name = "registry"
    /\ CustomPlatform(options)
    /\ calls = <<Call("LookupImage", 0, "unknown")>>
    /\ IsImageUnknown(result.err)

\* ---- C2
\* C2: the error Pull returns is storage.ErrImageUnknown only if the policy is
\* never and no local image was found (the "only if" half of pull.go 52-54; the
\* "if" half is C1).
C2_UnknownOnlyUnderNever ==
    (pc = "done" /\ IsImageUnknown(result.err))
    => (pullPolicy = PolicyNever /\ ~localImage.found)

\* ---- C3
\* C3: under the policy always, a pull by a name that is an ID (64 characters,
\* or "sha256:"-prefixed) returns an error and no image, without a lookup, a
\* transport call or a write to the store: the local store is not even asked
\* whether an image has that ID.
C3_AlwaysRefusesID ==
    (pc = "done" /\ name = "id" /\ pullPolicy = PolicyAlways)
    => /\ result.err # NoErr
       /\ result.images = <<>>
       /\ calls = <<>>
       /\ store = {}

\* C3's case: the pull by ID under always has returned the refusal.
C3_Witness ==
    /\ pc = "done"
    /\ name = "id"
    /\ pullPolicy = PolicyAlways
    /\ result.err.kind = "pull policy is always but image has been referred to by ID"

\* ---- C4
\* The calls copySingleImageFromRegistry makes before the policy dispatch.
LookupOps == {"LookupImage", "isCorrupted"}

\* C4 as claimed: under the policy missing, with a local image that is not
\* corrupted, the pull returns the local image and makes no transport call.
C4_Claimed ==
    (SingleDone /\ pullPolicy = PolicyMissing /\ localImage.found)
    => /\ single = [name |-> ResolvedName(tagIdx), err |-> NoErr]
       /\ \A i \in DOMAIN calls : calls[i].op \in LookupOps
       /\ store = {}

\* C4, amended: under the policy missing, when no architecture, OS or variant
\* is asked for (in the options or, by default, in the system context), with a
\* local image that is not corrupted, the pull returns the local image and
\* makes no transport call: its only calls are the lookup and the corruption
\* check.
C4_MissingReturnsLocal ==
    (SingleDone /\ pullPolicy = PolicyMissing /\ ~CustomPlatform(options)
        /\ localImage.found)
    => /\ single = [name |-> ResolvedName(tagIdx), err |-> NoErr]
       /\ \A i \in DOMAIN calls : calls[i].op \in LookupOps
       /\ store = {}

\* C4's case: missing, no platform, a local image, and the pull has returned
\* it.
C4_Witness ==
    /\ pc = "done"
    /\ pullPolicy = PolicyMissing
    /\ ~CustomPlatform(options)
    /\ localImage.found
    /\ calls = <<Call("LookupImage", 0, "found"), Call("isCorrupted", 0, "ok")>>
    /\ result.err = NoErr
    /\ Len(result.images) = 1
    /\ result.images[1].name = ResolvedName(0)


\* ---- C5
\* The candidate a call is made for, per position of calls.
CandidateOf(i) == calls[i].cand

\* C5: in a pull from a registry the candidates are tried in the resolver's order, each at most once and
\* none skipped; once the copy of a candidate has succeeded the function
\* returns: no call is made for a later candidate, nothing is copied or
\* compared after it, the result carries no error of an earlier candidate,
\* and it is the identity derived from the copied candidate's manifest
\* whenever that derivation succeeds (its error otherwise).
C5_FirstSuccessWins ==
    name \in {"registry", "idprefix"} =>
    /\ \A i, j \in DOMAIN calls :
         (i < j /\ CandidateOf(i) > 0 /\ CandidateOf(j) > 0)
         => /\ CandidateOf(i) <= CandidateOf(j)
            /\ CandidateOf(j) - CandidateOf(i) <= j - i
            /\ calls[i].op = calls[j].op => CandidateOf(i) < CandidateOf(j)
    /\ \A i \in DOMAIN calls :
         (CandidateOf(i) > 0 /\ \A h \in 1..(i - 1) : CandidateOf(h) = 0)
         => CandidateOf(i) = 1
    /\ \A i \in DOMAIN calls :
         calls[i] = Call("Copy", CandidateOf(i), "ok")
         => /\ SingleDone
            /\ \A j \in DOMAIN calls :
                 j > i => /\ CandidateOf(j) \in {0, CandidateOf(i)}
                          /\ calls[j].op \notin {"Copy", "hasDifferentDigest", "NewReference"}
            /\ single.err.errs = <<>>
            /\ single.err.cand \in {0, CandidateOf(i)}
            /\ single.name \in {NoName, ImageIDForPulledImage(tagIdx, CandidateOf(i))}
            /\ single.name = NoName <=> single.err # NoErr
            /\ single.err # NoErr
                 <=> Call("imageIDForPulledImage", CandidateOf(i), "err") \in
                       {calls[j] : j \in DOMAIN calls}
            /\ ImageIDForPulledImage(tagIdx, CandidateOf(i)) \in store

\* C5's case: the copy of the first candidate failed, the copy of the second
\* succeeded, and the pull returned the second candidate's identity alone.
C5_Witness ==
    /\ pc = "done"
    /\ nCandidates = 2
    /\ \E i, j \in DOMAIN calls :
         /\ calls[i] = Call("Copy", 1, "err")
         /\ calls[j] = Call("Copy", 2, "ok")
    /\ single = [name |-> ImageIDForPulledImage(0, 2), err |-> NoErr]
    /\ result.err = NoErr
    /\ Len(result.images) = 1
    /\ result.images[1].name = ImageIDForPulledImage(0, 2)

\* ---- C6
\* C6: in one pull of one image Record is called at most once, right after
\* the successful copy of the candidate it is called for; whether it fails or
\* not, the function then returns what the derivation of the identity gives:
\* the candidate's identity, or the derivation's error.
C6_RecordIsBestEffort ==
    /\ Cardinality(CallsOf({"Record"})) <= 1
    /\ \A i \in CallsOf({"Record"}) :
         /\ i > 1
         /\ calls[i - 1] = Call("Copy", CandidateOf(i), "ok")
         /\ i < Len(calls)
         /\ calls[i + 1].op = "imageIDForPulledImage"
         /\ SingleDone
         /\ single = IF calls[i + 1].res = "ok"
                     THEN [name |-> ImageIDForPulledImage(tagIdx, CandidateOf(i)),
                           err |-> NoErr]
                     ELSE [name |-> NoName, err |-> Err("image ID", CandidateOf(i), FALSE)]
    /\ \A i \in CallsOf({"Copy"}) :
         calls[i].res = "err" => (i = Len(calls) \/ calls[i + 1].op # "Record")

\* C6's case: the copy of the first candidate failed, that of the second
\* succeeded, its Record failed, and the pull returned the second candidate's
\* identity.
C6_Witness ==
    /\ pc = "done"
    /\ \E i \in DOMAIN calls : calls[i] = Call("Copy", 1, "err")
    /\ \E i \in DOMAIN calls : calls[i] = Call("Record", 2, "err")
    /\ single = [name |-> ImageIDForPulledImage(0, 2), err |-> NoErr]
    /\ result.err = NoErr

\* ---- C7
\* The loop over the candidates was entered, and every candidate's digest was
\* compared with the local image's and found to be the same.
AllDigestsSame ==
    /\ Call("newCopier", 0, "ok") \in {calls[i] : i \in DOMAIN calls}
    /\ \A c \in 1..nCandidates :
         Call("hasDifferentDigest", c, "same") \in {calls[i] : i \in DOMAIN calls}

\* C7: under the policy newer (asked for, or escalated to) with a local image,
\* when every candidate's digest is the local image's, the pull returns the
\* local image and makes no copy and no Record call.
C7_NothingNewerReturnsLocal ==
    (SingleDone /\ policy = PolicyNewer /\ localImage.found /\ AllDigestsSame)
    => /\ single = [name |-> ResolvedName(tagIdx), err |-> NoErr]
       /\ CallsOf({"Copy", "Record", "imageIDForPulledImage"}) = {}
       /\ store = {}

\* C7's case: newer was asked for, two candidates, both with the local digest,
\* and the pull has returned the local image.
C7_Witness ==
    /\ pc = "done"
    /\ pullPolicy = PolicyNewer
    /\ localImage.found
    /\ nCandidates = 2
    /\ AllDigestsSame
    /\ result.err = NoErr
    /\ Len(result.images) = 1
    /\ result.images[1].name = ResolvedName(0)

\* ---- C8
\* The loop over the candidates ended without a return from inside it.
WaterfallExhausted == SingleDone /\ ci > nCandidates

\* The candidates whose copy failed, in the order of the calls.
FailedCopies ==
    LET failed == SelectSeq(calls, LAMBDA x : x.op = "Copy" /\ x.res = "err")
    IN  [i \in DOMAIN failed |-> Err("copy", failed[i].cand, FALSE)]

\* C8: when the loop over the candidates ends without a successful copy: with
\* a local image under the (escalated) policy newer the pull returns the local
\* image; otherwise every candidate's copy was tried and failed, and the pull
\* fails with the aggregate of exactly these errors, one per candidate in the
\* candidates' order, or with "no image pulled" when there was no candidate.
C8_Exhausted ==
    WaterfallExhausted
    => /\ CallsOf({"Copy"}) = {i \in DOMAIN calls : calls[i].op = "Copy" /\ calls[i].res = "err"}
       /\ IF localImage.found /\ policy = PolicyNewer
          THEN single = [name |-> ResolvedName(tagIdx), err |-> NoErr]
          ELSE /\ single.name = NoName
               /\ Len(FailedCopies) = nCandidates
               /\ \A c \in 1..nCandidates : FailedCopies[c].cand = c
               /\ IF nCandidates = 0
                  THEN single.err = Err("internal error: no image pulled", 0, FALSE)
                  ELSE single.err = FormatPullErrors(FailedCopies)
               /\ result.err = single.err

\* C8's case: two candidates, both copies failed, and the pull failed with
\* the aggregate of the two errors in order.
C8_Witness ==
    /\ pc = "done"
    /\ WaterfallExhausted
    /\ nCandidates = 2
    /\ result.err = FormatPullErrors(<<Err("copy", 1, FALSE), Err("copy", 2, FALSE)>>)

\* ---- C9
\* The loop over the tags has polled ctx.Done() and found it closed, after at
\* least one tag was pulled: the cancellation is observed between two tags.
CancelledBetweenTags ==
    /\ doneAtPoll
    /\ Len(pulledIDs) >= 1

\* The images the rounds so far have pulled from the registry are in the store.
PulledStayStored ==
    \A i \in DOMAIN pulledIDs : pulledIDs[i].kind = "pulled" => pulledIDs[i] \in store

\* C9: the all-tags pull that observes the cancellation between two tags,
\* after at least one tag was pulled, has returned, without an error and with
\* exactly the identities pulled before the cancellation; the remaining tags
\* are not attempted and the images already pulled stay in the store.
C9_Claimed ==
    CancelledBetweenTags
    => /\ pc = "done"
       /\ result.err = NoErr
       /\ [i \in DOMAIN result.images |-> result.images[i].name] = pulledIDs
       /\ attempted = [i \in 1..(tagIdx - 1) |-> i]
       /\ PulledStayStored

\* What the code does instead of C9: when the cancellation is observed
\* between two tags after at least one tag was pulled, the all-tags pull has
\* returned, with the error "pulling cancelled" and no image (the identities
\* pulled before are dropped); the tag polled for and the tags after it are
\* not attempted, and the images already pulled stay in the store.  A
\* cancellation that arrives after the last poll is not observed.
C9_CancelledFails ==
    CancelledBetweenTags
    => /\ pc = "done"
       /\ cancelled
       /\ result.err = Err("pulling cancelled", 0, FALSE)
       /\ result.images = <<>>
       /\ tagIdx <= nTags
       /\ attempted = [i \in 1..(tagIdx - 1) |-> i]
       /\ Len(pulledIDs) = tagIdx - 1
       /\ PulledStayStored

\* The case of C9: two tags, the first pulled from the registry, the
\* cancellation seen before the second.
C9_Witness ==
    /\ CancelledBetweenTags
    /\ nTags = 2
    /\ tagIdx = 2
    /\ pulledIDs = <<ImageIDForPulledImage(1, 1)>>
    /\ ImageIDForPulledImage(1, 1) \in store
    /\ result.err.kind = "pulling cancelled"

\* ---------------------------------------------------------------------- C10

\* The indices of names at which an image identity is seen for the first time,
\* and those at which a resolved name is.
FirstOfID(names) ==
    {i \in 1..Len(names) : \A h \in 1..(i - 1) :
        StoreLookup(names[h]).id # StoreLookup(names[i]).id}
FirstOfName(names) ==
    {i \in 1..Len(names) : \A h \in 1..(i - 1) :
        StoreLookup(names[h]).resolved # StoreLookup(names[i]).resolved}

\* What f gives at the indices of I, in the order of the indices.
RECURSIVE InOrder(_, _)
InOrder(I, f) ==
    IF I = {}
    THEN <<>>
    ELSE LET m == CHOOSE i \in I : \A h \in I : i <= h
         IN  <<f[m]>> \o InOrder(I \ {m}, f)

\* The entries a docker-archive export of names is to have: one for each image
\* identity in the order the identities are first named, tagged with the
\* additional tags and then with every tagged name given for the identity.
TaggedNames == {"docker.io/library/repo:v1", "docker.io/library/repo:v2",
                "docker.io/library/other:v1"}
ExpectedEntries(names, additionalTags) ==
    LET ids == InOrder(FirstOfID(names), [i \in 1..Len(names) |-> StoreLookup(names[i]).id])
        tagsOf(id) ==
            InOrder({i \in FirstOfName(names) :
                        /\ StoreLookup(names[i]).id = id
                        /\ StoreLookup(names[i]).resolved \in TaggedNames},
                    [i \in 1..Len(names) |-> StoreLookup(names[i]).resolved])
    IN  [e \in 1..Len(ids) |->
            [id |-> ids[e], tags |-> NormalizedTags(additionalTags).tags \o tagsOf(ids[e])]]

\* The copies an export has asked for, each with its image and its tags.
CopiesMade ==
    LET copies == SelectSeq(calls, LAMBDA c : c.op = "copy")
    IN  [e \in 1..Len(copies) |-> [id |-> copies[e].id, tags |-> copies[e].tags]]

\* C10: a docker-archive export copies the distinct image identities of its
\* names in the order they are first named, each once and with every tag of
\* its entry: at any moment the copies asked for are the first of the expected
\* entries, and an export that returns without error has made all of them.
C10_OneCopyPerImage ==
    (save.op = "save" /\ save.format = "docker-archive") =>
        LET expected == ExpectedEntries(save.names, save.additionalTags)
        IN  /\ Len(CopiesMade) <= Len(expected)
            /\ \A e \in 1..Len(CopiesMade) : CopiesMade[e] = expected[e]
            /\ (pc = "done" /\ result.err = NoErr) =>
                    /\ CopiesMade = expected
                    /\ save.archive = [e \in 1..Len(expected) |->
                                          [id |-> expected[e].id, name |-> "",
                                           tags |-> expected[e].tags]]

\* Two names of one image are exported as one entry with both tags.
C10_Witness ==
    /\ save.op = "save"
    /\ save.format = "docker-archive"
    /\ save.names = <<"repo:v1", "repo:v2">>
    /\ pc = "done"
    /\ result.err = NoErr
    /\ CopiesMade = <<[id |-> "id1",
                       tags |-> <<"docker.io/library/repo:v1", "docker.io/library/repo:v2">>]>>

\* ---------------------------------------------------------------------- C11

\* The entries an oci-archive export of names is to have: for each image
\* identity in the order the identities are first named, one entry for every
\* tagged name given for the identity, named by it.
ExpectedOCIEntries(names) ==
    LET ids == InOrder(FirstOfID(names), [i \in 1..Len(names) |-> StoreLookup(names[i]).id])
        namesOf(id) ==
            InOrder({i \in FirstOfName(names) :
                        /\ StoreLookup(names[i]).id = id
                        /\ StoreLookup(names[i]).resolved \in TaggedNames},
                    [i \in 1..Len(names) |-> [id |-> id, name |-> StoreLookup(names[i]).resolved]])
        RECURSIVE flat(_)
        flat(e) == IF e > Len(ids) THEN <<>> ELSE namesOf(ids[e]) \o flat(e + 1)
    IN  flat(1)

\* The copies an export has asked for, each with its image and the name of its
\* destination reference.
NamedCopiesMade ==
    LET copies == SelectSeq(calls, LAMBDA c : c.op = "copy")
    IN  [e \in 1..Len(copies) |-> [id |-> copies[e].id, name |-> copies[e].name]]

\* The destination references an export has asked the writer for.
ReferencesMade ==
    LET refs == SelectSeq(calls, LAMBDA c : c.op = "NewReference" /\ c.res = "ok")
    IN  [e \in 1..Len(refs) |-> [id |-> refs[e].id, name |-> refs[e].name]]

\* C11: an oci-archive export copies, for each distinct image identity in the
\* order the identities are first named, once per destination name recorded
\* for it, each copy into a destination reference of its own that carries the
\* name: at any moment the copies asked for are the first of the expected
\* entries, each after a reference made for it, and an export that returns
\* without error has made all of them.
C11_OneCopyPerName ==
    (save.op = "save" /\ save.format = "oci-archive") =>
        LET expected == ExpectedOCIEntries(save.names)
        IN  /\ Len(NamedCopiesMade) <= Len(expected)
            /\ \A e \in 1..Len(NamedCopiesMade) : NamedCopiesMade[e] = expected[e]
            /\ Len(ReferencesMade) \in {Len(NamedCopiesMade), Len(NamedCopiesMade) + 1}
            /\ \A e \in 1..Len(ReferencesMade) : ReferencesMade[e] = expected[e]
            /\ (pc = "done" /\ result.err = NoErr) =>
                    /\ NamedCopiesMade = expected
                    /\ save.archive = [e \in 1..Len(expected) |->
                                          [id |-> expected[e].id, name |-> expected[e].name,
                                           tags |-> <<>>]]

\* Two names of one image are exported as two entries, one per name.
C11_Witness ==
    /\ save.op = "save"
    /\ save.format = "oci-archive"
    /\ save.names = <<"repo:v1", "repo:v2">>
    /\ pc = "done"
    /\ result.err = NoErr
    /\ NamedCopiesMade = <<[id |-> "id1", name |-> "docker.io/library/repo:v1"],
                           [id |-> "id1", name |-> "docker.io/library/repo:v2"]>>

\* ---------------------------------------------------------------------- C12

\* The scan of saveArchive has passed names[i], and no name after it.
Scanned(i) ==
    /\ save.op = "save"
    /\ pc \in {"scan", "saveDockerArchive", "saveOCIArchive", "done"}
    /\ i \in 1..Len(save.names)
    /\ save.i = i + 1

\* names[i] is the ID of the image that the tagged name names[h] names.
IDOfEarlierName(h, i) ==
    /\ h < i
    /\ StoreLookup(save.names[h]).resolved \in TaggedNames
    /\ StoreLookup(save.names[i]).resolved = StoreLookup(save.names[i]).id
    /\ StoreLookup(save.names[i]).id = StoreLookup(save.names[h]).id

\* C12 as claimed: a name that is the ID of an image named before is skipped
\* by the deduplication of the resolved names: it is not visited, and the
\* entry keeps its one tag.
C12_Claimed ==
    (Scanned(2) /\ IDOfEarlierName(1, 2)) =>
        LET r == StoreLookup(save.names[2])
        IN  /\ r.resolved \notin save.visitedNames
            /\ save.orderedIDs = <<r.id>>
            /\ Len(save.localImages[r.id].tags) = Len(save.tags) + 1

\* C12, amended: a name that is the ID of an image named before resolves to
\* the ID, which no earlier name resolved to, so it is visited and not
\* skipped; the image still has a single entry, and the ID adds no tag and no
\* destination name to it: the entry carries the additional tags and the one
\* tag of the tagged name.
C12_IDAddsNoTag ==
    (Scanned(2) /\ IDOfEarlierName(1, 2)) =>
        LET r == StoreLookup(save.names[2])
            tag == StoreLookup(save.names[1]).resolved
        IN  /\ r.resolved \in save.visitedNames
            /\ save.orderedIDs = <<r.id>>
            /\ DOMAIN save.localImages = {r.id}
            /\ save.localImages[r.id] =
                 [tags |-> NormalizedTags(save.additionalTags).tags \o <<tag>>,
                  destNames |-> <<tag>>]

\* A tagged name and then the ID of its image were scanned.
C12_Witness ==
    /\ Scanned(2)
    /\ save.names = <<"repo:v1", "id1">>
    /\ save.visitedNames = {"docker.io/library/repo:v1", "id1"}
    /\ save.localImages["id1"].tags = <<"docker.io/library/repo:v1">>

\* ---------------------------------------------------------------------- C13

\* The input Save is to refuse: no name, several names with a format that is
\* no archive, several names with additional tags.
InvalidSaveInput ==
    \/ Len(save.names) = 0
    \/ Len(save.names) > 1 /\ save.format \notin {"docker-archive", "oci-archive"}
    \/ Len(save.names) > 1 /\ Len(save.additionalTags) > 0

\* C13: called with no name, with several names and a format other than
\* docker-archive and oci-archive, or with several names and additional tags,
\* Save returns an error at once: no image is looked up, no archive writer is
\* opened, nothing is copied and no event is written.
C13_InvalidInputTouchesNothing ==
    (save.op = "save" /\ InvalidSaveInput /\ pc # "Save") =>
        /\ pc = "done"
        /\ result.err # NoErr
        /\ calls = <<>>
        /\ save.writer = "none"
        /\ save.archive = <<>>
        /\ events = <<>>

\* Two names for oci-dir were refused.
C13_Witness ==
    /\ save.op = "save"
    /\ Len(save.names) = 2
    /\ save.format = "oci-dir"
    /\ pc = "done"
    /\ result.err.kind = "unsupported format for saving multiple images"
    /\ calls = <<>>

\* ---------------------------------------------------------------------- C14

WriterOpened == {i \in DOMAIN calls : calls[i].op = "NewWriter" /\ calls[i].res = "ok"}
WriterClosed == {i \in DOMAIN calls : calls[i].op = "writer.Close"}

\* C15: an export opens at most one archive writer; while the export runs the
\* writer stays open, and when the export has returned, however it ended, the
\* writer was closed exactly once, as the last thing the export did.
C15_WriterClosedOnce ==
    save.op = "save" =>
        /\ Cardinality(WriterOpened) <= 1
        /\ WriterOpened = {} => (WriterClosed = {} /\ save.writer = "none")
        /\ (WriterOpened # {} /\ pc # "done") => (WriterClosed = {} /\ save.writer = "open")
        /\ (WriterOpened # {} /\ pc = "done")
             => (WriterClosed = {Len(calls)} /\ save.writer = "closed")

\* An export whose copy failed has closed its writer.
C15_Witness ==
    /\ save.op = "save"
    /\ pc = "done"
    /\ WriterOpened # {}
    /\ \E i \in DOMAIN calls : calls[i].op = "copy" /\ calls[i].res = "err"
    /\ WriterClosed = {Len(calls)}
    /\ save.writer = "closed"

\* ---------------------------------------------------------------------- C16

\* The error at the root of a chain of wrapped errors.
RECURSIVE RootCause(_)
RootCause(err) == IF err.errs = <<>> THEN err ELSE RootCause(err.errs[1])

\* The operations of an export that failed once the writer was open, and
\* whether the close of the writer failed.
FailedOps ==
    {i \in DOMAIN calls : calls[i].res = "err" /\ calls[i].op \notin {"NewWriter", "writer.Close"}}
CloseFailed == \E i \in WriterClosed : calls[i].res = "err"

\* C16: when an export that opened its writer has returned: if an operation
\* failed, the error returned has that failure at its root, alone if the close
\* succeeded and with the close failure chained to it if the close failed
\* too; if every operation succeeded and the close failed, the export returns
\* an error with the close failure at its root; it returns no error only if
\* no operation and no close failed.
C16_CloseErrorIsChained ==
    (save.op = "save" /\ pc = "done" /\ WriterOpened # {}) =>
        /\ Cardinality(FailedOps) <= 1
        /\ \A i \in FailedOps :
             /\ RootCause(result.err).kind = calls[i].op
             /\ IF CloseFailed
                THEN /\ result.err.kind = "writer.Close"
                     /\ result.err.errs = <<RootCause(result.err)>>
                ELSE result.err = RootCause(result.err)
        /\ (FailedOps = {} /\ CloseFailed)
             => /\ result.err # NoErr
                /\ RootCause(result.err) = Err("writer.Close", 0, FALSE)
        /\ result.err = NoErr <=> (FailedOps = {} /\ ~CloseFailed)

\* A copy into a docker-archive failed, then the close of the writer failed,
\* and the export returned the copy's failure with the close failure chained.
C16_Witness ==
    /\ save.op = "save"
    /\ save.format = "docker-archive"
    /\ pc = "done"
    /\ CloseFailed
    /\ \E i \in FailedOps : calls[i].op = "copy"
    /\ result.err = WrapCause(Err("copy", 1, FALSE), "writer.Close")

\* ---------------------------------------------------------------------- C17

\* An additional tag that cannot be normalized, or that normalizes to a
\* reference without a tag.
BadAdditionalTag(tag) == ~NormalizeName(tag).ok \/ ~NormalizeName(tag).withTag

\* C17: an archive export with an additional tag that is malformed or that
\* normalizes to an untagged reference fails before any image is looked up
\* and before a writer is opened: once the tags are normalized the export has
\* returned an error, with no call made.
C17_BadTagFails ==
    (/\ save.op = "save"
     /\ pc \in {"scan", "saveDockerArchive", "saveOCIArchive", "done"}
     /\ save.format \in {"docker-archive", "oci-archive"}
     /\ SaveSanity(save.names, save.format, save.additionalTags) = NoErr
     /\ \E t \in DOMAIN save.additionalTags : BadAdditionalTag(save.additionalTags[t]))
    => /\ pc = "done"
       /\ result.err # NoErr
       /\ calls = <<>>
       /\ save.writer = "none"

\* ---------------------------------------------------------------------- C18

\* The positions of matches with the given answer.
MatchesWith(answers) == {i \in DOMAIN matches : matches[i] \in answers}

\* C18: a pulled image whose platform does not match the requested one is
\* kept like one that matches: every answer of matchesPlatform but an error
\* adds the image to the result, a mismatch writes one warning to
\* options.Writer, or to the log when there is no Writer, and the pull goes
\* on; of the answers only an error ends the pull, with the error of the
\* platform check.
C18_MismatchIsAdvisory ==
    /\ Len(localImages) = Cardinality(MatchesWith({"match", "mismatch"}))
    /\ output = [i \in 1..Cardinality(MatchesWith({"mismatch"})) |->
                    IF options.Writer THEN "Writer: WARNING" ELSE "logrus.Warnf"]
    /\ MatchesWith({"err"}) \subseteq {Len(matches)}
    /\ MatchesWith({"err"}) # {}
         <=> (pc = "done" /\ result.err = Err("checking platform of image", 0, FALSE))
    /\ (MatchesWith({"mismatch"}) # {} /\ MatchesWith({"err"}) = {} /\ pc = "Pull_Images")
         => pIdx = Len(matches) + 1
    /\ (pc = "done" /\ result.err = NoErr /\ matches # <<>>)
         => /\ result.images = localImages
            /\ Len(result.images) = Len(pulledImages)

\* A pull with a Writer returned its image although the platform did not
\* match, and the warning was written.
C18_Witness ==
    /\ pc = "done"
    /\ options.Writer
    /\ matches = <<"mismatch">>
    /\ output = <<"Writer: WARNING">>
    /\ result.err = NoErr
    /\ Len(result.images) = 1

\* ---------------------------------------------------------------------- C19

\* C19: among the events one call of Pull or Save writes there is at most
\* one of type pull or save for an image, however many of the names of the
\* call are names of that image; without an event channel nothing is written.
C19_OneEventPerImage ==
    /\ \A i, j \in DOMAIN events :
         (i < j /\ events[i].type \in {"pull", "save"} /\ events[j].type = events[i].type)
         => events[i].id # events[j].id
    /\ ~eventChannel => events = <<>>

\* ---------------------------------------------------------------------- C20

\* The local image the lookup of this pull found is corrupted: the image a
\* lookup by ID answered, or the one isCorrupted was asked about.
LocalWasCorrupted ==
    \/ localImage.found /\ localImage.corrupted
    \/ Call("isCorrupted", 0, "corrupted") \in {calls[i] : i \in DOMAIN calls}

\* C20: a pull whose local image is corrupted ends as a pull without a local
\* image: it never returns the local image (whatever it returns was fetched),
\* and under the policy never it fails with storage.ErrImageUnknown.
C20_CorruptedIsAbsent ==
    (pc = "done" /\ LocalWasCorrupted)
    => /\ \A i \in DOMAIN result.images : result.images[i].name.kind # "resolved"
       /\ pullPolicy = PolicyNever => IsImageUnknown(result.err)


\* ---- C21
\* copySingleImageFromRegistry has looked the local image up and escalated
\* the policy.
Escalated ==
    name \in {"registry", "idprefix"} /\ calls # <<>> /\ calls[1].op = "LookupImage"

\* C21: once the pull of one image has looked the local image up, the policy
\* it goes on with is newer when the policy asked for is missing or newer and
\* an architecture, OS or variant is set (in the options or, by default, from
\* the system context), and is the policy asked for in every other case:
\* always and never are kept, and without a platform nothing changes. An
\* escalated missing is no longer missing: a local image that was not found by
\* ID is only returned after the resolver has been asked.
C21_PlatformEscalatesToNewer ==
    Escalated =>
       /\ policy = (IF CustomPlatform(options)
                        /\ pullPolicy \in {PolicyMissing, PolicyNewer}
                    THEN PolicyNewer ELSE pullPolicy)
       /\ (/\ CustomPlatform(options)
           /\ pullPolicy \in {PolicyMissing, PolicyNewer}
           /\ localImage.found /\ ~localImage.byID
           /\ SingleDone)
          => CallsOf({"Resolve"}) # {}
       /\ (pullPolicy = PolicyNever /\ SingleDone)
          => \A i \in DOMAIN calls : calls[i].op \in LookupOps

\* C21's case: missing with a platform has become newer, the local image was
\* compared with every candidate and, none being newer, returned.
C21_Witness ==
    /\ pc = "done"
    /\ pullPolicy = PolicyMissing
    /\ CustomPlatform(options)
    /\ policy = PolicyNewer
    /\ localImage.found /\ ~localImage.byID
    /\ CallsOf({"hasDifferentDigest"}) # {}
    /\ result.err = NoErr
    /\ Len(result.images) = 1
    /\ result.images[1].name = ResolvedName(0)


\* ---- C22
\* C22: when the lookup finds a local image that is not corrupted and whose ID
\* starts with the name asked for, the pull of that image fails under the
\* policy always and returns the local image's resolved name under every
\* other policy; either way it asks no resolver, compares no digest, makes no
\* copier and copies nothing.
C22_FoundByIDStaysLocal ==
    (Escalated /\ localImage.found /\ localImage.byID)
    => /\ SingleDone
       /\ single = (IF pullPolicy = PolicyAlways
                    THEN [name |-> NoName,
                          err |-> Err("pull policy is always but image has been referred to by ID", 0, FALSE)]
                    ELSE [name |-> ResolvedName(tagIdx), err |-> NoErr])
       /\ \A i \in DOMAIN calls : calls[i].op \in LookupOps
       /\ store = {}

\* C22's case: under the policy newer an image found by the prefix of its ID
\* has been returned by Pull.
C22_Witness ==
    /\ pc = "done"
    /\ name = "idprefix"
    /\ pullPolicy = PolicyNewer
    /\ localImage.found /\ localImage.byID
    /\ result.err = NoErr
    /\ Len(result.images) = 1
    /\ result.images[1].name = ResolvedName(0)

\* C22's other case: under the policy always the pull has failed.
C22_WitnessAlways ==
    /\ pc = "done"
    /\ name = "idprefix"
    /\ pullPolicy = PolicyAlways
    /\ localImage.found /\ localImage.byID
    /\ result.err.kind = "pull policy is always but image has been referred to by ID"

\* ---- C23
\* shortnames.Resolve has failed.
ResolveHasFailed == \E i \in DOMAIN calls : calls[i] = Call("Resolve", 0, "err")

\* C23: when the resolver fails, the pull of the image has returned: the local
\* image's resolved name when there is a local image and the policy in force
\* is newer, the resolver's error otherwise. In both cases the failed
\* resolution is the last call: no copier, no digest comparison, no copy, no
\* record, and nothing is stored.
C23_ResolverFailure ==
    (Escalated /\ ResolveHasFailed)
    => /\ SingleDone
       /\ single = (IF localImage.found /\ policy = PolicyNewer
                    THEN [name |-> ResolvedName(tagIdx), err |-> NoErr]
                    ELSE [name |-> NoName,
                          err |-> Err("short-name resolution", 0, FALSE)])
       /\ calls[Len(calls)] = Call("Resolve", 0, "err")
       /\ CallsOf({"newCopier", "hasDifferentDigest", "Copy", "Record"}) = {}
       /\ store = {}

\* C23's case: the resolver has failed under newer with a local image, and
\* Pull has returned that image.
C23_Witness ==
    /\ pc = "done"
    /\ ResolveHasFailed
    /\ policy = PolicyNewer
    /\ localImage.found
    /\ result.err = NoErr
    /\ Len(result.images) = 1
    /\ result.images[1].name = ResolvedName(0)

\* C23's other case: the resolver has failed without a local image, and Pull
\* has failed with its error.
C23_WitnessFails ==
    /\ pc = "done"
    /\ ResolveHasFailed
    /\ ~localImage.found
    /\ result.err.kind = "short-name resolution"

\* ---- C24
\* The positions in calls of the digest comparisons that failed.
FailedComparisons ==
    {i \in DOMAIN calls : calls[i].op = "hasDifferentDigest" /\ calls[i].res = "err"}

\* C24: in the pull of one image, a digest comparison is made only under the
\* policy in force newer with a local image, and one that fails is soft: the
\* candidate it was made for is not copied, the loop goes on to the next
\* candidate (or, after the last one, leaves the loop and closes the copier),
\* and the comparison's error is never what the pull returns, neither by
\* itself nor among the errors of an exhausted waterfall: a pull that ends
\* without an error of its own ends with the identity of a later candidate or
\* with the local image, and one that runs out of candidates ends with the
\* local image.
C24_ComparisonFailureIsSoft ==
    (Escalated /\ FailedComparisons # {})
    => /\ policy = PolicyNewer /\ localImage.found
       /\ \A i \in FailedComparisons :
            LET c == CandidateOf(i)
            IN  /\ \A k \in CallsOf({"Copy", "ParseStoreReference", "Record"}) :
                      CandidateOf(k) # c
                /\ i = Len(calls) => ~SingleDone /\ pc = "candidates" /\ ci = c + 1
                /\ i < Len(calls) =>
                      \/ calls[i + 1] \in {Call("NewReference", c + 1, "ok"),
                                           Call("NewReference", c + 1, "err")}
                      \/ c = nCandidates /\ calls[i + 1] = Call("Close", 0, "ok")
                /\ SingleDone =>
                      /\ single.err.kind # "digest"
                      /\ \A e \in DOMAIN single.err.errs :
                            single.err.errs[e].kind # "digest"
                      /\ single.err = NoErr =>
                            \/ single.name = ResolvedName(tagIdx)
                            \/ \E c2 \in (c + 1)..nCandidates :
                                  single.name = ImageIDForPulledImage(tagIdx, c2)
                      /\ ci > nCandidates =>
                            single = [name |-> ResolvedName(tagIdx), err |-> NoErr]

\* C24's case: the comparison failed for the first candidate, the second was
\* copied, and Pull has returned its image.
C24_Witness ==
    /\ pc = "done"
    /\ policy = PolicyNewer /\ localImage.found
    /\ \E i \in FailedComparisons : CandidateOf(i) = 1
    /\ \E k \in CallsOf({"Copy"}) : calls[k] = Call("Copy", 2, "ok")
    /\ result.err = NoErr
    /\ Len(result.images) = 1
    /\ result.images[1].name = ImageIDForPulledImage(0, 2)

\* C24's other case: every comparison failed, and Pull has returned the local
\* image.
C24_WitnessLocal ==
    /\ pc = "done"
    /\ nCandidates = MaxCandidates
    /\ Cardinality(FailedComparisons) = nCandidates
    /\ result.err = NoErr
    /\ Len(result.images) = 1
    /\ result.images[1].name = ResolvedName(0)

\* ---- C25
\* How often x occurs in the sequence q.
Count(q, x) == Cardinality({n \in DOMAIN q : q[n] = x})

\* The pairs of positions of two distinct input names, both scanned, that
\* LookupImage resolves to one and the same tagged reference.
SameTaggedReference ==
    {hi \in (DOMAIN save.names) \X (DOMAIN save.names) :
        /\ hi[1] < hi[2] /\ hi[2] < save.i
        /\ save.names[hi[1]] # save.names[hi[2]]
        /\ StoreLookup(save.names[hi[1]]).found
        /\ StoreLookup(save.names[hi[1]]).resolved = StoreLookup(save.names[hi[2]]).resolved
        /\ ParseNamed(StoreLookup(save.names[hi[1]]).resolved).withTag}

\* C25 as claimed: two distinct input names that resolve to the same tagged
\* reference put that tag twice into the tags of the image's entry.
C25_Claimed ==
    (save.op = "save" /\ pc \in {"scan", "saveDockerArchive", "saveOCIArchive", "done"})
    => \A hi \in SameTaggedReference :
          LET r == StoreLookup(save.names[hi[1]])
          IN  r.id \in DOMAIN save.localImages
              => Count(save.localImages[r.id].tags, r.resolved) >= 2

\* C25, amended: two distinct input names that resolve to the same tagged
\* reference put that tag once into the tags of the image's entry, and the
\* reference once into its destination names: the second name is looked up
\* and then skipped, its resolved name having been visited.
C25_SameReferenceOnce ==
    (save.op = "save" /\ pc \in {"scan", "saveDockerArchive", "saveOCIArchive", "done"})
    => \A hi \in SameTaggedReference :
          LET r == StoreLookup(save.names[hi[1]])
          IN  /\ r.id \in DOMAIN save.localImages
              /\ Count(save.localImages[r.id].tags, r.resolved) = 1
              /\ Count(save.localImages[r.id].destNames, r.resolved) = 1
              /\ LET lookups == SelectSeq(calls, LAMBDA c : c.op = "LookupImage")
                 IN  /\ Len(lookups) >= hi[2]
                     /\ lookups[hi[1]].name = save.names[hi[1]]
                     /\ lookups[hi[2]].name = save.names[hi[2]]

\* C25's case: repo:v1 and docker.io/library/repo:v1 have been exported to a
\* docker archive, as one image with the tag once.
C25_Witness ==
    /\ pc = "done"
    /\ save.op = "save"
    /\ save.format = "docker-archive"
    /\ save.names = <<"repo:v1", "docker.io/library/repo:v1">>
    /\ result.err = NoErr
    /\ save.archive = <<[id |-> "id1", name |-> "",
                         tags |-> <<"docker.io/library/repo:v1">>]>>

\* ---- C26
\* The export has panicked.
Panicked == pc = "done" /\ result.err.kind = "panic: nil pointer dereference"

\* C26: in an archive export, every entry has as many tags as there are
\* additional tags and destination names, a destination name being added
\* exactly when a tag is; and a name that resolves to an ID or to a reference
\* without a tag adds neither and does not make the export crash.
C26_DestNameIffTag ==
    save.op = "save" =>
       /\ \A id \in DOMAIN save.localImages :
             Len(save.localImages[id].tags)
                = Len(save.tags) + Len(save.localImages[id].destNames)
       /\ ~Panicked

\* The part of C26 that holds: the lengths agree in every entry, and a name
\* that resolves to an ID adds neither a tag nor a destination name.
C26_LengthsAgree ==
    save.op = "save" =>
       \A id \in DOMAIN save.localImages :
          /\ Len(save.localImages[id].tags)
                = Len(save.tags) + Len(save.localImages[id].destNames)
          /\ \A n \in DOMAIN save.localImages[id].destNames :
                ParseNamed(save.localImages[id].destNames[n]).withTag

\* ---- C27
\* The positions in calls of the copiers created, of the copiers closed and
\* of the copies.
CopiersCreated == {n \in DOMAIN calls : calls[n].op = "newCopier" /\ calls[n].res = "ok"}
CopiersClosed == {n \in DOMAIN calls : calls[n].op = "copier.close"}
Copies == {n \in DOMAIN calls : calls[n].op = "copy"}

\* C27: in an archive export,
\*   - the copiers are created one per image, for the images of orderedIDs in
\*     their order, never two for one image;
\*   - every copy is made with the copier created last, which is the copier of
\*     the image copied and is not closed;
\*   - no copier is closed while the export runs; when it has returned, however
\*     it ended, every copier created has been closed exactly once, and none
\*     that was not created;
\*   - every copier is closed before the writer is.
C27_CopierPerImage ==
    (save.op = "save" /\ save.format \in {"docker-archive", "oci-archive"}) =>
       LET created == SelectSeq(calls, LAMBDA c : c.op = "newCopier")
       IN  /\ Len(created) <= Len(save.orderedIDs)
           /\ \A e \in DOMAIN created : created[e].id = save.orderedIDs[e]
           /\ \A m \in CopiersCreated, n \in CopiersCreated :
                 calls[m].id = calls[n].id => m = n
           /\ \A k \in Copies :
                 /\ \E m \in CopiersCreated :
                       /\ m < k
                       /\ calls[m].id = calls[k].id
                       /\ \A n \in CallsOf({"newCopier"}) : n < k => n <= m
                 /\ \A n \in CopiersClosed : n > k
           /\ pc # "done" =>
                 /\ CopiersClosed = {}
                 /\ save.copiers = [e \in 1..Cardinality(CopiersCreated) |->
                                       save.orderedIDs[e]]
           /\ pc = "done" =>
                 /\ \A m \in CopiersCreated :
                       Cardinality({n \in CopiersClosed :
                                       calls[n].id = calls[m].id /\ n > m}) = 1
                 /\ Cardinality(CopiersClosed) = Cardinality(CopiersCreated)
           /\ \A n \in CopiersClosed, w \in WriterClosed : n < w

\* C27's case: two images were given a copier each and copied, the export
\* failed at the second copy, and both copiers and then the writer were closed.
C27_Witness ==
    /\ pc = "done"
    /\ save.op = "save"
    /\ save.format \in {"docker-archive", "oci-archive"}
    /\ Cardinality(CopiersCreated) = 2
    /\ Cardinality(CopiersClosed) = 2
    /\ \E k \in Copies : calls[k].res = "err"
    /\ result.err # NoErr
    /\ WriterClosed = {Len(calls)}

\* ---- C28
\* The identities of the images an export names.
NamedIDs == {StoreLookup(save.names[n]).id : n \in DOMAIN save.names}

\* C28: an archive export, of either format, that returns without error has
\* copied every distinct image it names at least once, an image named by its
\* ID only included.
C28_SuccessCopiesEveryImage ==
    (/\ save.op = "save"
     /\ save.format \in {"docker-archive", "oci-archive"}
     /\ pc = "done"
     /\ result.err = NoErr)
    => \A id \in NamedIDs :
          \E k \in Copies : calls[k].id = id /\ calls[k].res = "ok"

\* The part of C28 that holds: a docker-archive export that returns without
\* error has copied every image it names, and so has an oci-archive export for
\* every image that one of its names gives a tagged reference for.
C28_SuccessCopiesNamedImages ==
    (/\ save.op = "save"
     /\ save.format \in {"docker-archive", "oci-archive"}
     /\ pc = "done"
     /\ result.err = NoErr)
    => \A n \in DOMAIN save.names :
          (\/ save.format = "docker-archive"
           \/ ParseNamed(StoreLookup(save.names[n]).resolved).withTag)
          => \E k \in Copies :
                /\ calls[k].id = StoreLookup(save.names[n]).id
                /\ calls[k].res = "ok"

\* ---- C29
\* The positions in events of the events of a type.
EventsOf(type) == {n \in DOMAIN events : events[n].type = type}

\* C29: with an event sink, a call that returns an error has emitted no
\* success event: a failing Pull has emitted exactly one pullError event and
\* no pull event, a failing Save no save event.
C29_SuccessEventsOnlyOnSuccess ==
    (eventChannel /\ pc = "done" /\ result.err # NoErr)
    => IF save.op = "save"
       THEN EventsOf("save") = {}
       ELSE /\ Cardinality(EventsOf("pullError")) = 1
            /\ EventsOf("pull") = {}

\* The part of C29 that holds: with an event sink, a Pull that returns an
\* error has emitted exactly one pullError event, as its last event and with
\* that error, and a Pull that returns without error none; Save emits no
\* pullError event.
C29_OnePullErrorPerFailure ==
    (eventChannel /\ pc = "done")
    => IF save.op # "save" /\ result.err # NoErr
       THEN /\ EventsOf("pullError") = {Len(events)}
            /\ events[Len(events)].err = result.err
       ELSE EventsOf("pullError") = {}

\* ---- C30
\* The names the scan has dealt with.
ScannedNames == SubSeq(save.names, 1, save.i - 1)

\* C30: in an archive export that has not panicked, orderedIDs holds the
\* identities of the names scanned so far, each once, in the order they were
\* first named, and localImages has an entry for exactly these identities: the
\* loops over orderedIDs find an entry for every ID, and no export ends with
\* the internal error of an ID missing from the map.
C30_OrderedIDsAreKeys ==
    (save.op = "save" /\ save.format \in {"docker-archive", "oci-archive"} /\ ~Panicked)
    => /\ save.orderedIDs
            = InOrder(FirstOfID(ScannedNames),
                      [n \in DOMAIN ScannedNames |-> StoreLookup(ScannedNames[n]).id])
       /\ \A m, n \in DOMAIN save.orderedIDs :
             save.orderedIDs[m] = save.orderedIDs[n] => m = n
       /\ DOMAIN save.localImages = {save.orderedIDs[n] : n \in DOMAIN save.orderedIDs}
       /\ result.err # ErrNotInLocalMap
       /\ \A n \in DOMAIN result.err.errs : result.err.errs[n] # ErrNotInLocalMap

\* C30's case: two names of one image were scanned and
\* exported: orderedIDs holds each identity once.
C30_Witness ==
    /\ pc = "done"
    /\ save.op = "save"
    /\ save.format \in {"docker-archive", "oci-archive"}
    /\ save.names = <<"repo:v1", "repo:v2">>
    /\ save.orderedIDs = <<"id1">>
    /\ DOMAIN save.localImages = {"id1"}
    /\ result.err = NoErr

\* C30's other case: two images, in the order they were named.
C30_WitnessOrder ==
    /\ pc = "done"
    /\ save.op = "save"
    /\ save.names = <<"other:v1", "id1">>
    /\ save.orderedIDs = <<"id2", "id1">>
    /\ result.err = NoErr

====
